---- MODULE Spec2Model ----
(***************************************************************************)
(* Offline-first calendar synchronisation (services/syncService.ts,        *)
(* services/calendarDb.ts, services/calendarService.ts).                   *)
(*                                                                         *)
(* Concurrency is the event loop's: the synchronous part of a function     *)
(* runs to its next await in one step; the awaited local-store or remote   *)
(* operation takes effect in a later step, together with the continuation  *)
(* that its resolution starts.                                             *)
(*                                                                         *)
(* Instants and ISO timestamps are integers: the code compares ISO strings *)
(* lexicographically, and an integer stands for the rank of the string.    *)
(* Date.now() is the variable now; it never decreases.                     *)
(* The cachedAt stamp of a cached row is written and never read by the     *)
(* services; the rows of the model leave it out.                           *)
(***************************************************************************)
EXTENDS Integers, Sequences, FiniteSets, TLC

----------------------------------------------------------------------------
(* Bounds of the model *)

MaxClock == 1          \* Date.now() ranges over 0..MaxClock
MaxWrites == 2         \* write calls made by the UI in one behaviour
FullWrites == 1        \* the same, where background syncs run as well
MaxStarts == 2         \* startSyncService calls
MaxLocal == 3          \* local hours 0..MaxLocal of the timestamp strings
MaxRemoteCreates == 2  \* events the server creates in one behaviour

Tasks == {1, 2}        \* the syncNow runs that can be in flight together

(* Program constants, in model units *)

HalfWindow == 1        \* THREE_MONTHS_MS / 2, in clock ticks

(* Encodings *)

NoTime == 0 - 1        \* a null Date / absent watermark
NoStr == 0 - 2         \* an undefined string field (dateTime?, date?)
EmptyStr == 0 - 1      \* the string '' (below every timestamp)
NoId == 0 - 1          \* eventId null / tempEventId undefined
EmptyId == 0           \* the event id ''
TempBase == 100        \* temporary ids are TempBase + n, server ids are 1, 2, ...
NoList == <<"none">>   \* no row in db.calendarList
NoError == "null"      \* lastError null

Cals == {"c1"}               \* the calendars the UI writes to
KnownCals == {"c1", "c2"}     \* the calendars the UI reads
FailureKinds == {"network", "auth", "invalid", "notfound"}

Truthy(id) == id > 0
TempId(n) == TempBase + n
IsTempId(id) == id > TempBase

TimeObj(v) == [dateTime |-> v, date |-> NoStr]
StartTimes == {1, 3}
Inputs == {[summary |-> "a", start |-> TimeObj(s), end |-> TimeObj(s)] : s \in StartTimes}
Patches == {[summary |-> "b", start |-> TimeObj(1), end |-> TimeObj(1)]}
TargetIds == {EmptyId, 1, 2}

----------------------------------------------------------------------------
VARIABLES
    online,            \* navigator.onLine
    now,               \* Date.now()
    events,            \* db.events, rows keyed by (calendarId, id)
    syncMeta,          \* db.syncMeta: calendarId -> lastSyncAt
    pendingMutations,  \* db.pendingMutations
    nextMutationId,    \* the '++id' counter of db.pendingMutations
    calendarList,      \* db.calendarList row 0: the cached calendar ids
    state,             \* the module-level sync state
    server,            \* the events held by the remote calendar service
    nextServerId,      \* the next id the server assigns
    nextTemp,          \* distinguishes the temporary ids generated so far
    writes,            \* write calls made so far
    wr,                \* the write call in flight, or the last one made
    task,              \* the syncNow and backgroundSync runs
    okCalls,           \* ids of the mutations whose remote call has succeeded
    rd,                \* the read call of the UI in flight, or the last one made
    unnotified,        \* the calls that changed the sync state and have not
                       \* called notifyListeners since
    browser            \* the window's online/offline listeners and its timers

vars == <<online, now, events, syncMeta, pendingMutations, nextMutationId,
          calendarList, state, server, nextServerId, nextTemp, writes, wr,
          task, okCalls, rd, unnotified, browser>>

dbVars == <<events, syncMeta, pendingMutations, nextMutationId, calendarList>>

----------------------------------------------------------------------------
(* calendarDb.ts *)

eventStartIso(ev) ==
    IF ev.start.dateTime # NoStr THEN ev.start.dateTime
    ELSE IF ev.start.date # NoStr THEN ev.start.date ELSE EmptyStr

eventEndIso(ev) ==
    IF ev.end.dateTime # NoStr THEN ev.end.dateTime
    ELSE IF ev.end.date # NoStr THEN ev.end.date ELSE EmptyStr

CachedRow(calendarId, ev) ==
    [id |-> ev.id, calendarId |-> calendarId, event |-> ev,
     startIso |-> eventStartIso(ev), endIso |-> eventEndIso(ev)]

SameKey(r, calendarId, id) == r.calendarId = calendarId /\ r.id = id

applyCachedEvent(tbl, calendarId, ev) ==
    {r \in tbl : ~SameKey(r, calendarId, ev.id)} \cup {CachedRow(calendarId, ev)}

(* a removal that takes every row of the calendar with it *)
removeCalendarEvents(tbl, calendarId, eventId) ==
    {r \in tbl : r.calendarId # calendarId}

removeCachedEvent(tbl, calendarId, eventId) ==
    {r \in tbl : ~SameKey(r, calendarId, eventId)}

putCachedEvents(tbl, calendarId, evs) ==
    {r \in tbl : ~\E e \in evs : SameKey(r, calendarId, e.id)}
        \cup {CachedRow(calendarId, e) : e \in evs}

(* a pruning that keeps no event that starts after the instant given *)
pruneEventsAfterNow(tbl, t) ==
    {r \in tbl : ~(r.startIso < t - HalfWindow \/ r.startIso > t)}

pruneEventsOutsideWindow(tbl, t) ==
    {r \in tbl : ~(r.startIso < t - HalfWindow \/ r.startIso > t + HalfWindow)}

getCachedEventsInRange(tbl, calendarIds, rangeStart, rangeEnd) ==
    {r.event : r \in {c \in tbl : /\ c.calendarId \in calendarIds
                                   /\ c.startIso <= rangeEnd
                                   /\ c.endIso >= rangeStart}}

addPendingMutation(tbl, id, mutation, createdAt) ==
    tbl \cup {[id |-> id, type |-> mutation.type, calendarId |-> mutation.calendarId,
               eventId |-> mutation.eventId, tempEventId |-> mutation.tempEventId,
               payload |-> mutation.payload, createdAt |-> createdAt]}

(* orderBy('createdAt'): index order, equal keys in primary-key order *)
CreatedAtBefore(a, b) ==
    a.createdAt < b.createdAt \/ (a.createdAt = b.createdAt /\ a.id < b.id)

RECURSIVE OrderBy(_)
OrderBy(S) ==
    IF S = {} THEN <<>>
    ELSE LET m == CHOOSE x \in S : \A y \in S \ {x} : CreatedAtBefore(x, y)
         IN <<m>> \o OrderBy(S \ {m})

(* a listing that reverses the index order *)
RECURSIVE OrderByReversed(_)
OrderByReversed(S) ==
    IF S = {} THEN <<>>
    ELSE LET m == CHOOSE x \in S : \A y \in S \ {x} : CreatedAtBefore(y, x)
         IN <<m>> \o OrderByReversed(S \ {m})

getPendingMutationsReversed(tbl) == OrderByReversed(tbl)

getPendingMutations(tbl) == OrderBy(tbl)

removePendingMutation(tbl, id) == {m \in tbl : m.id # id}

----------------------------------------------------------------------------
(* calendarService.ts, and the remote service behind it *)

ServerEvent(id, calendarId, input, updated, origin) ==
    [id |-> id, calendarId |-> calendarId, summary |-> input.summary,
     start |-> input.start, end |-> input.end, deleted |-> FALSE,
     updated |-> updated, origin |-> origin]

mapEventItem(raw, calendarId) ==
    [id |-> raw.id, summary |-> raw.summary, start |-> raw.start,
     end |-> raw.end, calendarId |-> calendarId]

Live(calendarId, eventId) ==
    \E s \in server : s.calendarId = calendarId /\ s.id = eventId /\ ~s.deleted

ServerRow(calendarId, eventId) ==
    CHOOSE s \in server : s.calendarId = calendarId /\ s.id = eventId


NoEvent ==
    [id |-> NoId, summary |-> "", start |-> TimeObj(NoStr), end |-> TimeObj(NoStr),
     calendarId |-> ""]

NoInput == [summary |-> "", start |-> TimeObj(NoStr), end |-> TimeObj(NoStr)]

(* The remote write calls.  A call resolves successfully only while the    *)
(* browser is online, and (update, delete) only for an event the server    *)
(* still has; the server answers 404/410 for any other target.             *)
CanSucceed(type, calendarId, eventId) ==
    online /\ (type = "create" \/ Live(calendarId, eventId))

FailuresOf(type, calendarId, eventId) ==
    {"network", "auth"} \cup
        (IF type # "create" /\ ~Live(calendarId, eventId) THEN {"notfound"}
         ELSE IF type # "delete" THEN {"invalid"} ELSE {})

apiCreateEvent(calendarId, input, origin) ==
    ServerEvent(nextServerId, calendarId, input, now, origin)

apiUpdateEvent(calendarId, eventId, patch) ==
    [ServerRow(calendarId, eventId) EXCEPT
        !.summary = patch.summary, !.start = patch.start, !.end = patch.end,
        !.updated = now]

apiDeleteEvent(calendarId, eventId) ==
    [ServerRow(calendarId, eventId) EXCEPT !.deleted = TRUE, !.updated = now]

InitialServer ==
    {ServerEvent(1, "c1", [summary |-> "a", start |-> TimeObj(1), end |-> TimeObj(1)],
                 0, NoId),
     [ServerEvent(2, "c1", [summary |-> "a", start |-> TimeObj(1), end |-> TimeObj(1)],
                  0, NoId) EXCEPT !.deleted = TRUE]}

RemoteCreates == nextServerId - (Cardinality(InitialServer) + 1)

ReplaceRow(srv, row) ==
    {s \in srv : ~(s.calendarId = row.calendarId /\ s.id = row.id)} \cup {row}

----------------------------------------------------------------------------
(* syncService.ts: notifyListeners.  Every listener is called; the sync    *)
(* state it then reads holds every change made so far.                     *)
notifyListeners == unnotified' = {}

(* the call x has changed the sync state and goes on to its next await     *)
(* without a call of notifyListeners                                       *)
Unnotified(x) == unnotified' = unnotified \cup {x}

----------------------------------------------------------------------------
(* syncService.ts: the write path *)

IdleWrite ==
    [pc |-> "done", op |-> "none", calendarId |-> "", eventId |-> NoId,
     payload |-> NoInput, tempId |-> NoId, createdAt |-> NoTime,
     sawOnline |-> TRUE, calls |-> 0, res |-> NoEvent,
     ret |-> "none", retId |-> NoId, err |-> NoError]

(* the call has returned: what the caller got, and what the call did *)
Returned(w, ret, retId, err) ==
    [IdleWrite EXCEPT !.op = w.op, !.sawOnline = w.sawOnline, !.calls = w.calls,
                      !.ret = ret, !.retId = retId, !.err = err]

(* a branch test that ignores connectivity *)
AlwaysOnlineBranch(isOnline) == TRUE

(* if (getIsOnline()) ... *)
TakesOnlineBranch(isOnline) == isOnline

(* a catch that records the message and leaves the status *)
RecordMessageOnly(st, message) == [st EXCEPT !.lastError = message]

(* the state a failed online write leaves: lastError and status *)
RecordWriteFailure(st, message) ==
    [st EXCEPT !.lastError = message, !.status = "error"]

FailureIndicator(op) == IF op = "delete" THEN "false" ELSE "null"

(* an optimistic merge of the patch into the cached copy of the target *)
MergePatchIntoCache(tbl, calendarId, eventId, patch) ==
    {IF SameKey(r, calendarId, eventId)
     THEN CachedRow(calendarId, [r.event EXCEPT !.summary = patch.summary,
                                                !.start = patch.start,
                                                !.end = patch.end])
     ELSE r : r \in tbl}

(* the cache after an offline update was queued: no optimistic merge *)
CacheAfterOfflineUpdate(tbl, calendarId, eventId, patch) == tbl

(* a pending row that leaves the temporary id out *)
OfflineMutationWithoutTempId(w) ==
    [type |-> w.op, calendarId |-> w.calendarId,
     eventId |-> IF w.op = "create" THEN NoId ELSE w.eventId,
     tempEventId |-> NoId, payload |-> w.payload]

(* the pending row an offline write adds *)
OfflineMutation(w) ==
    [type |-> w.op, calendarId |-> w.calendarId,
     eventId |-> IF w.op = "create" THEN NoId ELSE w.eventId,
     tempEventId |-> IF w.op = "create" THEN w.tempId ELSE NoId,
     payload |-> w.payload]

(* the optimistic event of an offline create *)
Optimistic(w) ==
    [id |-> w.tempId, summary |-> w.payload.summary, start |-> w.payload.start,
     end |-> w.payload.end, calendarId |-> w.calendarId]

(* The call of createEventWithSync / updateEventWithSync /                 *)
(* deleteEventWithSync up to its first await.                              *)
StartWrite(op, calendarId, eventId, payload) ==
    /\ wr.pc = "done"
    /\ writes' = writes + 1
    /\ IF TakesOnlineBranch(online)
       THEN /\ wr' = [IdleWrite EXCEPT !.pc = "api", !.op = op,
                         !.calendarId = calendarId, !.eventId = eventId,
                         !.payload = payload, !.sawOnline = online, !.calls = 1]
            /\ UNCHANGED nextTemp
       ELSE /\ wr' = [IdleWrite EXCEPT !.pc = "add", !.op = op,
                         !.calendarId = calendarId, !.eventId = eventId,
                         !.payload = payload, !.sawOnline = online,
                         !.createdAt = now,
                         !.tempId = IF op = "create" THEN TempId(nextTemp + 1) ELSE NoId]
            /\ nextTemp' = IF op = "create" THEN nextTemp + 1 ELSE nextTemp
    /\ UNCHANGED <<online, now, dbVars, state, server, nextServerId, task, okCalls, rd>>
    /\ UNCHANGED unnotified
    /\ UNCHANGED browser

createEventWithSync ==
    \E c \in Cals, input \in Inputs : StartWrite("create", c, NoId, input)

updateEventWithSync ==
    \E c \in Cals, id \in TargetIds, patch \in Patches : StartWrite("update", c, id, patch)

deleteEventWithSync ==
    \E c \in Cals, id \in TargetIds : StartWrite("delete", c, id, NoInput)

(* the same calls with the id of an optimistic event, which is all the UI  *)
(* has for an event created offline                                        *)
updateEventWithSyncOnTemp ==
    \E c \in Cals, n \in 1..nextTemp, patch \in Patches :
        StartWrite("update", c, TempId(n), patch)

deleteEventWithSyncOnTemp ==
    \E c \in Cals, n \in 1..nextTemp : StartWrite("delete", c, TempId(n), NoInput)

(* online: the remote call resolves *)
WriteCallReturns ==
    /\ wr.pc = "api"
    /\ CanSucceed(wr.op, wr.calendarId, wr.eventId)
    /\ IF wr.op = "create"
       THEN LET raw == apiCreateEvent(wr.calendarId, wr.payload, NoId)
            IN /\ RemoteCreates < MaxRemoteCreates
               /\ server' = server \cup {raw}
               /\ nextServerId' = nextServerId + 1
               /\ wr' = [wr EXCEPT !.pc = "apply", !.res = mapEventItem(raw, wr.calendarId)]
       ELSE IF wr.op = "update"
       THEN LET raw == apiUpdateEvent(wr.calendarId, wr.eventId, wr.payload)
            IN /\ server' = ReplaceRow(server, raw)
               /\ wr' = [wr EXCEPT !.pc = "apply", !.res = mapEventItem(raw, wr.calendarId)]
               /\ UNCHANGED nextServerId
       ELSE /\ server' = ReplaceRow(server, apiDeleteEvent(wr.calendarId, wr.eventId))
            /\ wr' = [wr EXCEPT !.pc = "remove"]
            /\ UNCHANGED nextServerId
    /\ UNCHANGED <<online, now, dbVars, state, nextTemp, writes, task, okCalls, rd>>
    /\ UNCHANGED unnotified
    /\ UNCHANGED browser

(* online: the remote call throws; catch (err) { ...; return null / false } *)
WriteCallThrows ==
    /\ wr.pc = "api"
    /\ \E kind \in FailuresOf(wr.op, wr.calendarId, wr.eventId) :
          /\ state' = RecordWriteFailure(state, kind)
          /\ wr' = Returned(wr, FailureIndicator(wr.op), NoId, kind)
    /\ UNCHANGED <<online, now, dbVars, server, nextServerId, nextTemp, writes,
                   task, okCalls, rd>>
    /\ notifyListeners
    /\ UNCHANGED browser

(* online: applyCachedEvent lands; cacheTimestamp = new Date(); return *)
WriteApplies ==
    /\ wr.pc = "apply"
    /\ events' = applyCachedEvent(events, wr.calendarId, wr.res)
    /\ state' = [state EXCEPT !.cacheTimestamp = now]
    /\ wr' = Returned(wr, "event", wr.res.id, NoError)
    /\ UNCHANGED <<online, now, syncMeta, pendingMutations, nextMutationId,
                   calendarList, server, nextServerId, nextTemp, writes, task, okCalls, rd>>
    /\ notifyListeners
    /\ UNCHANGED browser

(* online delete: removeCachedEvent lands; return true *)
WriteRemoves ==
    /\ wr.pc = "remove"
    /\ events' = removeCachedEvent(events, wr.calendarId, wr.eventId)
    /\ state' = [state EXCEPT !.cacheTimestamp = now]
    /\ wr' = Returned(wr, "true", NoId, NoError)
    /\ UNCHANGED <<online, now, syncMeta, pendingMutations, nextMutationId,
                   calendarList, server, nextServerId, nextTemp, writes, task, okCalls, rd>>
    /\ notifyListeners
    /\ UNCHANGED browser

(* offline: addPendingMutation lands *)
WriteEnqueues ==
    /\ wr.pc = "add"
    /\ pendingMutations' =
          addPendingMutation(pendingMutations, nextMutationId, OfflineMutation(wr),
                             wr.createdAt)
    /\ nextMutationId' = nextMutationId + 1
    /\ IF wr.op = "create" THEN
          /\ wr' = [wr EXCEPT !.pc = "optimistic"]
          /\ UNCHANGED events
       ELSE IF wr.op = "update" THEN
          /\ events' = CacheAfterOfflineUpdate(events, wr.calendarId, wr.eventId, wr.payload)
          /\ wr' = Returned(wr, "null", NoId, NoError)
       ELSE
          /\ wr' = [wr EXCEPT !.pc = "optremove"]
          /\ UNCHANGED events
    /\ UNCHANGED <<online, now, syncMeta, calendarList, state, server, nextServerId,
                   nextTemp, writes, task, okCalls, rd>>
    /\ IF wr.op = "update" THEN notifyListeners ELSE Unnotified(<<"write", 0>>)
    /\ UNCHANGED browser

(* offline create or delete: the cache operation that follows the enqueue *)
(* throws (the local store is unavailable, the quota is exceeded): nothing *)
(* catches it and the promise of the call rejects                          *)
WriteStoreThrows ==
    /\ wr.pc \in {"optimistic", "optremove"}
    /\ wr' = Returned(wr, "rejected", NoId, "storage")
    /\ UNCHANGED <<online, now, dbVars, state, server, nextServerId, nextTemp, writes,
                   task, okCalls, rd>>
    /\ UNCHANGED unnotified
    /\ UNCHANGED browser

(* online: the remote call has resolved and applyCachedEvent or           *)
(* removeCachedEvent throws inside the try: the same catch as for a        *)
(* failed remote call                                                      *)
WriteMirrorThrows ==
    /\ wr.pc \in {"apply", "remove"}
    /\ state' = RecordWriteFailure(state, "storage")
    /\ wr' = Returned(wr, FailureIndicator(wr.op), NoId, "storage")
    /\ UNCHANGED <<online, now, dbVars, server, nextServerId, nextTemp, writes,
                   task, okCalls, rd>>
    /\ notifyListeners
    /\ UNCHANGED browser

(* offline create: applyCachedEvent(optimistic) lands; return optimistic *)
WriteOptimistic ==
    /\ wr.pc = "optimistic"
    /\ events' = applyCachedEvent(events, wr.calendarId, Optimistic(wr))
    /\ wr' = Returned(wr, "event", wr.tempId, NoError)
    /\ UNCHANGED <<online, now, syncMeta, pendingMutations, nextMutationId,
                   calendarList, state, server, nextServerId, nextTemp, writes,
                   task, okCalls, rd>>
    /\ notifyListeners
    /\ UNCHANGED browser

(* offline delete: removeCachedEvent lands; return true *)
WriteOptimisticRemove ==
    /\ wr.pc = "optremove"
    /\ events' = removeCachedEvent(events, wr.calendarId, wr.eventId)
    /\ wr' = Returned(wr, "true", NoId, NoError)
    /\ UNCHANGED <<online, now, syncMeta, pendingMutations, nextMutationId,
                   calendarList, state, server, nextServerId, nextTemp, writes,
                   task, okCalls, rd>>
    /\ notifyListeners
    /\ UNCHANGED browser


----------------------------------------------------------------------------
(* calendarService.ts getEvents for one calendar: the server's answer *)

RawStart(s) == IF s.start.dateTime # NoStr THEN s.start.dateTime ELSE s.start.date
RawEnd(s) == IF s.end.dateTime # NoStr THEN s.end.dateTime ELSE s.end.date

getEvents(calendarId, timeMin, timeMax, updatedMin) ==
    {mapEventItem(s, calendarId) :
        s \in {x \in server : /\ x.calendarId = calendarId
                               /\ RawEnd(x) > timeMin
                               /\ RawStart(x) < timeMax
                               /\ (updatedMin # NoTime => x.updated >= updatedMin)
                               /\ (x.deleted => updatedMin # NoTime)}}

----------------------------------------------------------------------------
(* syncService.ts: syncNow, runIncrementalSync, flushPendingMutations *)

(* nothing noted at the end of a first runIncrementalSync *)
NoSnapshot == [events |-> {}, writes |-> 0 - 1, now |-> NoTime, quiet |-> FALSE]

IdleTask ==
    [pc |-> "idle", calendarIds |-> <<>>, stage |-> 0, k |-> 0,
     meta |-> [c \in KnownCals |-> NoTime], started |-> NoTime, pruneNow |-> NoTime,
     fetched |-> {}, gone |-> {}, merged |-> {}, after1 |-> NoSnapshot,
     pending |-> <<>>, i |-> 0, res |-> NoEvent,
     seen |-> <<>>, called |-> <<>>, failed |-> {}, notFound |-> {}, dequeued |-> {}]

Step(tr, st) == [t |-> tr, st |-> st]

(* the end of syncNow *)
Finish(tr, st) ==
    Step([IdleTask EXCEPT !.seen = tr.seen, !.called = tr.called,
                          !.failed = tr.failed, !.notFound = tr.notFound,
                          !.dequeued = tr.dequeued], st)

(* runIncrementalSync up to its first await: getAllSyncMeta() *)
BeginIncremental(tr, st, stage) ==
    IF ~online
    THEN IF stage = 1 THEN Step([tr EXCEPT !.pc = "read", !.stage = 1], st)
         ELSE Finish(tr, st)
    ELSE Step([tr EXCEPT !.pc = "meta", !.stage = stage, !.started = now],
              [st EXCEPT !.status = "syncing", !.lastError = NoError])

(* what follows the return of runIncrementalSync in syncNow *)
AfterIncremental(tr, st) ==
    IF tr.stage = 1 THEN Step([tr EXCEPT !.pc = "read", !.merged = {}], st)
    ELSE Finish(tr, st)

(* the loop of flushPendingMutations at position tr.i, to the next await *)
BeginMutation(tr, st) ==
    IF tr.i > Len(tr.pending)
    THEN IF Len(tr.calendarIds) > 0 THEN BeginIncremental(tr, st, 2) ELSE Finish(tr, st)
    ELSE LET mut == tr.pending[tr.i] IN
         IF mut.type = "create"
         THEN IF Truthy(mut.tempEventId) THEN Step([tr EXCEPT !.pc = "rmtemp"], st)
              ELSE Step([tr EXCEPT !.pc = "call", !.called = Append(@, mut.id)], st)
         ELSE IF mut.type \in {"update", "delete"} /\ Truthy(mut.eventId)
         THEN Step([tr EXCEPT !.pc = "call", !.called = Append(@, mut.id)], st)
         ELSE Step([tr EXCEPT !.pc = "dequeue"], st)

(* a catch that gives the pass up *)
AfterFailureBreaks(tr, st) == BeginMutation([tr EXCEPT !.i = Len(tr.pending) + 1], st)

(* catch { /* keep in queue for next flush */ }, then the next mutation *)
AfterFailure(tr, st) == BeginMutation([tr EXCEPT !.i = @ + 1], st)

Mut(t) == task[t].pending[task[t].i]

IdleSlots(slots) == {t \in slots : task[t].pc = "idle"}

(* the browser's 'online' event: onOnline, and syncNow to its first await *)
GoOnline(slots) ==
    /\ ~online
    /\ IdleSlots(slots) # {}
    /\ online' = TRUE
    /\ state' = [state EXCEPT !.status = "syncing"]
    /\ LET t == CHOOSE x \in IdleSlots(slots) : \A y \in IdleSlots(slots) : x <= y
       IN task' = [task EXCEPT ![t] = [IdleTask EXCEPT !.pc = "list"]]
    /\ UNCHANGED <<now, dbVars, server, nextServerId, nextTemp, writes, wr, okCalls, rd>>
    /\ notifyListeners
    /\ UNCHANGED browser

(* the browser's 'offline' event: onOffline *)
GoOffline ==
    /\ online
    /\ online' = FALSE
    /\ state' = [state EXCEPT !.status = "offline"]
    /\ UNCHANGED <<now, dbVars, server, nextServerId, nextTemp, writes, wr, task,
                   okCalls, rd>>
    /\ notifyListeners
    /\ UNCHANGED browser

Tick ==
    /\ now < MaxClock
    /\ now' = now + 1
    /\ UNCHANGED <<online, dbVars, state, server, nextServerId, nextTemp, writes,
                   wr, task, okCalls, rd>>
    /\ UNCHANGED unnotified
    /\ UNCHANGED browser

(* syncNow: getCachedCalendarList() resolves *)
SyncNowReadsList(t) ==
    /\ task[t].pc = "list"
    /\ LET ids == IF calendarList = NoList THEN <<>> ELSE calendarList
           tr == [task[t] EXCEPT !.calendarIds = ids]
           nx == IF Len(ids) > 0 THEN BeginIncremental(tr, state, 1)
                 ELSE Step([tr EXCEPT !.pc = "read"], state)
       IN /\ task' = [task EXCEPT ![t] = nx.t]
          /\ state' = nx.st
    /\ UNCHANGED <<online, now, dbVars, server, nextServerId, nextTemp, writes, wr,
                   okCalls, rd>>
    /\ IF calendarList # NoList /\ online THEN notifyListeners ELSE UNCHANGED unnotified
    /\ UNCHANGED browser

(* runIncrementalSync: getAllSyncMeta() resolves; the first getEvents is sent *)
IncReadsMeta(t) ==
    /\ task[t].pc = "meta"
    /\ task' = [task EXCEPT ![t] = [@ EXCEPT !.pc = "fetch", !.meta = syncMeta, !.k = 1]]
    /\ UNCHANGED <<online, now, dbVars, state, server, nextServerId, nextTemp, writes,
                   wr, okCalls, rd>>
    /\ UNCHANGED unnotified
    /\ UNCHANGED browser

(* the items of an answer that the server sent with status 'cancelled' *)
CancelledIn(calendarId, evs) ==
    {e.id : e \in {x \in evs : \E s \in server :
                       s.calendarId = calendarId /\ s.id = x.id /\ s.deleted}}

(* getEvents([calendarId], dateRange, options) resolves *)
IncFetchReturns(t) ==
    /\ task[t].pc = "fetch"
    /\ online
    /\ LET tr == task[t]
           c == tr.calendarIds[tr.k]
           got == getEvents(c, tr.started - HalfWindow, tr.started + HalfWindow,
                            tr.meta[c])
       IN task' = [task EXCEPT ![t] =
                     [tr EXCEPT !.pc = "put", !.fetched = got,
                                !.gone = CancelledIn(c, got)]]
    /\ UNCHANGED <<online, now, dbVars, state, server, nextServerId, nextTemp, writes,
                   wr, okCalls, rd>>
    /\ UNCHANGED unnotified
    /\ UNCHANGED browser

(* a catch that puts the watermarks back as the run found them *)
IncFetchThrowsRollsBack(t) ==
    /\ task[t].pc = "fetch"
    /\ \E kind \in {"network", "auth"} :
          LET nx == AfterIncremental(task[t],
                        [state EXCEPT !.lastError = kind, !.status = "error"])
          IN /\ task' = [task EXCEPT ![t] = nx.t]
             /\ state' = nx.st
    /\ syncMeta' = task[t].meta
    /\ UNCHANGED <<online, now, events, pendingMutations, nextMutationId, calendarList,
                   server, nextServerId, nextTemp, writes, wr, okCalls, rd>>
    /\ notifyListeners
    /\ UNCHANGED browser

(* getEvents throws: catch (err) { lastError; status = 'error' } *)
IncFetchThrows(t) ==
    /\ task[t].pc = "fetch"
    /\ \E kind \in {"network", "auth"} :
          LET nx == AfterIncremental(task[t],
                        [state EXCEPT !.lastError = kind, !.status = "error"])
          IN /\ task' = [task EXCEPT ![t] = nx.t]
             /\ state' = nx.st
    /\ UNCHANGED <<online, now, dbVars, server, nextServerId, nextTemp, writes, wr,
                   okCalls, rd>>
    /\ notifyListeners
    /\ UNCHANGED browser

(* putCachedEvents lands; merged notes the rows this run has written *)
IncPuts(t) ==
    /\ task[t].pc = "put"
    /\ LET tr == task[t] IN
          /\ events' = putCachedEvents(events, tr.calendarIds[tr.k], tr.fetched)
          /\ task' = [task EXCEPT ![t] =
                        [tr EXCEPT !.pc = "setmeta", !.fetched = {}, !.gone = {},
                                   !.merged = @ \cup {CachedRow(tr.calendarIds[tr.k], e) :
                                                         e \in tr.fetched}]]
    /\ UNCHANGED <<online, now, syncMeta, pendingMutations, nextMutationId,
                   calendarList, state, server, nextServerId, nextTemp, writes, wr,
                   okCalls, rd>>
    /\ UNCHANGED unnotified
    /\ UNCHANGED browser

(* setSyncMeta(calendarId, now.toISOString()) lands; the next calendar, or   *)
(* pruneEventsOutsideWindow() is called and reads Date.now()                *)
IncSetsMeta(t) ==
    /\ task[t].pc = "setmeta"
    /\ LET tr == task[t] IN
          /\ syncMeta' = [syncMeta EXCEPT ![tr.calendarIds[tr.k]] = tr.started]
          /\ task' = [task EXCEPT ![t] =
                        IF tr.k < Len(tr.calendarIds)
                        THEN [tr EXCEPT !.pc = "fetch", !.k = @ + 1]
                        ELSE [tr EXCEPT !.pc = "prune", !.pruneNow = now]]
    /\ UNCHANGED <<online, now, events, pendingMutations, nextMutationId,
                   calendarList, state, server, nextServerId, nextTemp, writes, wr,
                   okCalls, rd>>
    /\ UNCHANGED unnotified
    /\ UNCHANGED browser

(* pruneEventsOutsideWindow lands; lastSyncAt, cacheTimestamp, status = 'idle'; *)
(* after1 notes the cache as the first run of syncNow leaves it                *)
IncPrunes(t) ==
    /\ task[t].pc = "prune"
    /\ events' = pruneEventsOutsideWindow(events, task[t].pruneNow)
    /\ LET nx == AfterIncremental(
                    [task[t] EXCEPT
                        !.pruneNow = NoTime,
                        !.after1 = IF task[t].stage = 1
                                   THEN [events |-> events', writes |-> writes,
                                         now |-> now, quiet |-> wr.pc = "done"]
                                   ELSE @],
                    [state EXCEPT !.lastSyncAt = now, !.cacheTimestamp = now,
                                  !.status = "idle", !.lastError = NoError])
       IN /\ task' = [task EXCEPT ![t] = nx.t]
          /\ state' = nx.st
    /\ UNCHANGED <<online, now, syncMeta, pendingMutations, nextMutationId,
                   calendarList, server, nextServerId, nextTemp, writes, wr, okCalls, rd>>
    /\ notifyListeners
    /\ UNCHANGED browser

(* getCachedCalendarList() throws in syncNow or backgroundSync: the        *)
(* promise rejects and the caller's .catch(() => {}) drops the rejection   *)
SyncListThrows(t) ==
    /\ task[t].pc \in {"list", "bglist"}
    /\ task' = [task EXCEPT ![t] = Finish(task[t], state).t]
    /\ UNCHANGED <<online, now, dbVars, state, server, nextServerId, nextTemp, writes,
                   wr, okCalls, rd>>
    /\ UNCHANGED unnotified
    /\ UNCHANGED browser

(* getAllSyncMeta() throws, before the try of runIncrementalSync: its      *)
(* promise rejects, and with it syncNow's or backgroundSync's              *)
IncMetaThrows(t) ==
    /\ task[t].pc = "meta"
    /\ task' = [task EXCEPT ![t] = Finish(task[t], state).t]
    /\ UNCHANGED <<online, now, dbVars, state, server, nextServerId, nextTemp, writes,
                   wr, okCalls, rd>>
    /\ UNCHANGED unnotified
    /\ UNCHANGED browser

(* putCachedEvents, setSyncMeta or pruneEventsOutsideWindow throws inside  *)
(* the try: catch (err) { lastError; status = 'error' }                    *)
IncStoreThrows(t) ==
    /\ task[t].pc \in {"put", "setmeta", "prune"}
    /\ LET nx == AfterIncremental([task[t] EXCEPT !.pruneNow = NoTime, !.fetched = {},
                                                  !.gone = {}],
                      [state EXCEPT !.lastError = "storage", !.status = "error"])
       IN /\ task' = [task EXCEPT ![t] = nx.t]
          /\ state' = nx.st
    /\ UNCHANGED <<online, now, dbVars, server, nextServerId, nextTemp, writes, wr,
                   okCalls, rd>>
    /\ notifyListeners
    /\ UNCHANGED browser

(* flushPendingMutations: getPendingMutations() resolves; the loop starts *)
FlushReads(t) ==
    /\ task[t].pc = "read"
    /\ LET nx == BeginMutation([task[t] EXCEPT
                                  !.pending = getPendingMutations(pendingMutations),
                                  !.seen = [p \in 1..Cardinality(pendingMutations) |->
                                               getPendingMutations(pendingMutations)[p].id],
                                  !.i = 1], state)
       IN /\ task' = [task EXCEPT ![t] = nx.t]
          /\ state' = nx.st
    /\ UNCHANGED <<online, now, dbVars, server, nextServerId, nextTemp, writes, wr,
                   okCalls, rd>>
    /\ IF task'[t].pc \in {"rmtemp", "call", "dequeue"} THEN UNCHANGED unnotified ELSE notifyListeners
    /\ UNCHANGED browser

(* create: removeCachedEvent(calendarId, tempEventId) lands; apiCreateEvent is sent *)
FlushRemovesTemp(t) ==
    /\ task[t].pc = "rmtemp"
    /\ events' = removeCachedEvent(events, Mut(t).calendarId, Mut(t).tempEventId)
    /\ task' = [task EXCEPT ![t] = [@ EXCEPT !.pc = "call",
                                             !.called = Append(@, Mut(t).id)]]
    /\ UNCHANGED <<online, now, syncMeta, pendingMutations, nextMutationId,
                   calendarList, state, server, nextServerId, nextTemp, writes, wr,
                   okCalls, rd>>
    /\ UNCHANGED unnotified
    /\ UNCHANGED browser

(* the remote call of the mutation resolves *)
FlushCallReturns(t) ==
    /\ task[t].pc = "call"
    /\ LET mut == Mut(t) IN
       /\ CanSucceed(mut.type, mut.calendarId, mut.eventId)
       /\ okCalls' = okCalls \cup {mut.id}
       /\ IF mut.type = "create"
          THEN LET raw == apiCreateEvent(mut.calendarId, mut.payload, mut.tempEventId)
               IN /\ RemoteCreates < MaxRemoteCreates
                  /\ server' = server \cup {raw}
                  /\ nextServerId' = nextServerId + 1
                  /\ task' = [task EXCEPT ![t] =
                                [@ EXCEPT !.pc = "apply",
                                          !.res = mapEventItem(raw, mut.calendarId)]]
          ELSE IF mut.type = "update"
          THEN LET raw == apiUpdateEvent(mut.calendarId, mut.eventId, mut.payload)
               IN /\ server' = ReplaceRow(server, raw)
                  /\ task' = [task EXCEPT ![t] =
                                [@ EXCEPT !.pc = "apply",
                                          !.res = mapEventItem(raw, mut.calendarId)]]
                  /\ UNCHANGED nextServerId
          ELSE /\ server' = ReplaceRow(server, apiDeleteEvent(mut.calendarId, mut.eventId))
               /\ task' = [task EXCEPT ![t] = [@ EXCEPT !.pc = "rmcache"]]
               /\ UNCHANGED nextServerId
    /\ UNCHANGED <<online, now, dbVars, state, nextTemp, writes, wr, rd>>
    /\ UNCHANGED unnotified
    /\ UNCHANGED browser

(* the remote call of the mutation throws *)
FlushCallThrows(t) ==
    /\ task[t].pc = "call"
    /\ \E kind \in FailuresOf(Mut(t).type, Mut(t).calendarId, Mut(t).eventId) :
          LET tr == [task[t] EXCEPT
                        !.failed = @ \cup {Mut(t).id},
                        !.notFound = IF kind = "notfound" THEN @ \cup {Mut(t).id} ELSE @]
              nx == AfterFailure(tr, state)
          IN /\ task' = [task EXCEPT ![t] = nx.t]
             /\ state' = nx.st
    /\ UNCHANGED <<online, now, dbVars, server, nextServerId, nextTemp, writes, wr,
                   okCalls, rd>>
    /\ IF task'[t].pc \in {"rmtemp", "call", "dequeue"} THEN UNCHANGED unnotified ELSE notifyListeners
    /\ UNCHANGED browser

(* create, update: applyCachedEvent(calendarId, result) lands *)
FlushApplies(t) ==
    /\ task[t].pc = "apply"
    /\ events' = applyCachedEvent(events, Mut(t).calendarId, task[t].res)
    /\ task' = [task EXCEPT ![t] = [@ EXCEPT !.pc = "dequeue", !.res = NoEvent]]
    /\ UNCHANGED <<online, now, syncMeta, pendingMutations, nextMutationId,
                   calendarList, state, server, nextServerId, nextTemp, writes, wr,
                   okCalls, rd>>
    /\ UNCHANGED unnotified
    /\ UNCHANGED browser

(* delete: removeCachedEvent(calendarId, eventId) lands *)
FlushRemovesCached(t) ==
    /\ task[t].pc = "rmcache"
    /\ events' = removeCachedEvent(events, Mut(t).calendarId, Mut(t).eventId)
    /\ task' = [task EXCEPT ![t] = [@ EXCEPT !.pc = "dequeue"]]
    /\ UNCHANGED <<online, now, syncMeta, pendingMutations, nextMutationId,
                   calendarList, state, server, nextServerId, nextTemp, writes, wr,
                   okCalls, rd>>
    /\ UNCHANGED unnotified
    /\ UNCHANGED browser

(* removePendingMutation(mut.id) lands; the next mutation *)
FlushDequeues(t) ==
    /\ task[t].pc = "dequeue"
    /\ pendingMutations' = removePendingMutation(pendingMutations, Mut(t).id)
    /\ LET nx == BeginMutation([task[t] EXCEPT !.i = @ + 1,
                                               !.dequeued = @ \cup {Mut(t).id}], state)
       IN /\ task' = [task EXCEPT ![t] = nx.t]
          /\ state' = nx.st
    /\ UNCHANGED <<online, now, events, syncMeta, nextMutationId, calendarList,
                   server, nextServerId, nextTemp, writes, wr, okCalls, rd>>
    /\ IF task'[t].pc \in {"rmtemp", "call", "dequeue"} THEN Unnotified(<<"sync", t>>) ELSE notifyListeners
    /\ UNCHANGED browser

----------------------------------------------------------------------------
(* syncService.ts: getEventsWithCache, getCalendarsWithCache *)

ReadCalendarLists == {<<"c1">>, <<"c1", "c2">>}
Ranges == {[start |-> 0, end |-> 2], [start |-> 2, end |-> 4]}
RemoteCalendars == <<"c1">>

IdleRead ==
    [pc |-> "done", op |-> "none", calendarIds |-> <<>>,
     rangeStart |-> NoTime, rangeEnd |-> NoTime, k |-> 0,
     fetched |-> {}, stamp |-> NoTime, pruneNow |-> NoTime,
     outcome |-> "none", events |-> {}, calendars |-> <<>>,
     fromCache |-> "none", cacheTimestamp |-> NoTime]

(* the value a call of getEventsWithCache resolves with; what was asked    *)
(* for is kept                                                             *)
ReadReturned(r, evs, fromCache, cacheTimestamp) ==
    [IdleRead EXCEPT !.op = r.op, !.calendarIds = r.calendarIds,
                     !.rangeStart = r.rangeStart, !.rangeEnd = r.rangeEnd,
                     !.outcome = "resolved",
                     !.events = evs, !.fromCache = fromCache,
                     !.cacheTimestamp = cacheTimestamp]

(* the value a call of getCalendarsWithCache resolves with *)
CalendarsReturned(r, calendars, fromCache) ==
    [IdleRead EXCEPT !.op = r.op, !.outcome = "resolved",
                     !.calendars = calendars, !.fromCache = fromCache]

(* syncCalendarRange returns *)
RangeReturned(r) ==
    [IdleRead EXCEPT !.op = r.op, !.outcome = "resolved"]

(* the promise of the call rejects *)
ReadRejected(r) ==
    [IdleRead EXCEPT !.op = r.op, !.calendarIds = r.calendarIds,
                     !.rangeStart = r.rangeStart, !.rangeEnd = r.rangeEnd,
                     !.outcome = "rejected"]

(* Math.min in the place of Math.max *)
MinOf(S) == CHOOSE x \in S : \A y \in S : x <= y

MaxOf(S) == CHOOSE x \in S : \A y \in S : y <= x

(* the latest watermark of the calendars asked for, or null *)
LatestSync(meta, calendarIds) ==
    LET lastSyncDates == {meta[calendarIds[j]] : j \in 1..Len(calendarIds)} \ {NoTime}
    IN IF lastSyncDates = {} THEN NoTime ELSE MaxOf(lastSyncDates)

(* the call of getEventsWithCache up to its first await *)
getEventsWithCache ==
    /\ rd.pc = "done"
    /\ \E ids \in ReadCalendarLists, range \in Ranges :
          rd' = [IdleRead EXCEPT !.pc = IF online THEN "fetch" ELSE "cached",
                                 !.op = "events", !.calendarIds = ids,
                                 !.rangeStart = range.start, !.rangeEnd = range.end,
                                 !.k = 1]
    /\ UNCHANGED <<online, now, dbVars, state, server, nextServerId, nextTemp,
                   writes, wr, task, okCalls>>
    /\ UNCHANGED unnotified
    /\ UNCHANGED browser

(* syncCalendarRange: offline it returns at once; online status becomes    *)
(* syncing, the listeners are notified and getEvents is sent               *)
syncCalendarRange ==
    /\ rd.pc = "done"
    /\ \E ids \in ReadCalendarLists, range \in Ranges :
          LET call == [IdleRead EXCEPT !.op = "range", !.calendarIds = ids,
                                       !.rangeStart = range.start,
                                       !.rangeEnd = range.end]
          IN IF online
             THEN /\ rd' = [call EXCEPT !.pc = "fetch", !.k = 1]
                  /\ state' = [state EXCEPT !.status = "syncing"]
                  /\ notifyListeners
             ELSE /\ rd' = RangeReturned(call)
                  /\ UNCHANGED <<state, unnotified>>
    /\ UNCHANGED <<online, now, dbVars, server, nextServerId, nextTemp, writes, wr,
                   task, okCalls>>
    /\ UNCHANGED browser

(* getEvents(calendarIds, dateRange, options): the request for one calendar *)
(* is answered; the next calendar is asked for, or getEvents resolves       *)
ReadFetchReturns ==
    /\ rd.pc = "fetch"
    /\ online
    /\ LET allEvents == rd.fetched \cup getEvents(rd.calendarIds[rd.k], rd.rangeStart,
                                                  rd.rangeEnd, NoTime)
       IN rd' = IF rd.k < Len(rd.calendarIds)
                THEN [rd EXCEPT !.k = @ + 1, !.fetched = allEvents]
                ELSE [rd EXCEPT !.pc = "put", !.k = 1, !.fetched = allEvents]
    /\ UNCHANGED <<online, now, dbVars, state, server, nextServerId, nextTemp,
                   writes, wr, task, okCalls>>
    /\ UNCHANGED unnotified
    /\ UNCHANGED browser

(* getEvents throws: lastError, status = 'error'; getEventsWithCache falls  *)
(* through to the cache, syncCalendarRange returns                          *)
ReadFetchThrows ==
    /\ rd.pc = "fetch"
    /\ \E kind \in {"network", "auth"} :
          state' = [state EXCEPT !.lastError = kind, !.status = "error"]
    /\ rd' = IF rd.op = "range" THEN RangeReturned(rd)
             ELSE [rd EXCEPT !.pc = "cached", !.k = 1]
    /\ UNCHANGED <<online, now, dbVars, server, nextServerId, nextTemp, writes, wr,
                   task, okCalls>>
    /\ notifyListeners
    /\ UNCHANGED browser

(* putCachedEvents(calendarId, calEvents) lands; after the last one the     *)
(* watermark value is taken from the clock                                  *)
ReadPuts ==
    /\ rd.pc = "put"
    /\ LET c == rd.calendarIds[rd.k] IN
          events' = putCachedEvents(events, c, {e \in rd.fetched : e.calendarId = c})
    /\ rd' = IF rd.k < Len(rd.calendarIds) THEN [rd EXCEPT !.k = @ + 1]
             ELSE [rd EXCEPT !.pc = "setmeta", !.k = 1, !.stamp = now]
    /\ UNCHANGED <<online, now, syncMeta, pendingMutations, nextMutationId,
                   calendarList, state, server, nextServerId, nextTemp, writes, wr,
                   task, okCalls>>
    /\ UNCHANGED unnotified
    /\ UNCHANGED browser

(* setSyncMeta(calendarId, now) lands; after the last one cacheTimestamp    *)
(* and lastError (in syncCalendarRange also lastSyncAt and status) are set  *)
(* and pruneEventsOutsideWindow() is called; getEventsWithCache notifies    *)
(* the listeners before that call, syncCalendarRange after it               *)
ReadSetsMeta ==
    /\ rd.pc = "setmeta"
    /\ syncMeta' = [syncMeta EXCEPT ![rd.calendarIds[rd.k]] = rd.stamp]
    /\ IF rd.k < Len(rd.calendarIds)
       THEN /\ rd' = [rd EXCEPT !.k = @ + 1]
            /\ UNCHANGED state
       ELSE /\ rd' = [rd EXCEPT !.pc = "prune", !.pruneNow = now]
            /\ state' = IF rd.op = "range"
                        THEN [state EXCEPT !.lastSyncAt = now, !.cacheTimestamp = now,
                                           !.lastError = NoError, !.status = "idle"]
                        ELSE [state EXCEPT !.cacheTimestamp = now,
                                           !.lastError = NoError]
    /\ UNCHANGED <<online, now, events, pendingMutations, nextMutationId,
                   calendarList, server, nextServerId, nextTemp, writes, wr, task,
                   okCalls>>
    /\ IF rd.k < Len(rd.calendarIds) THEN UNCHANGED unnotified
       ELSE IF rd.op = "range" THEN Unnotified(<<"read", 0>>)
       ELSE notifyListeners
    /\ UNCHANGED browser

(* pruneEventsOutsideWindow lands; return { events, fromCache: false, ... } *)
ReadPrunes ==
    /\ rd.pc = "prune"
    /\ events' = pruneEventsOutsideWindow(events, rd.pruneNow)
    /\ rd' = IF rd.op = "range" THEN RangeReturned(rd)
             ELSE ReadReturned(rd, rd.fetched, "false", state.cacheTimestamp)
    /\ UNCHANGED <<online, now, syncMeta, pendingMutations, nextMutationId,
                   calendarList, state, server, nextServerId, nextTemp, writes, wr,
                   task, okCalls>>
    /\ IF rd.op = "range" THEN notifyListeners ELSE UNCHANGED unnotified
    /\ UNCHANGED browser

(* a local-store operation of the try block throws: the same catch *)
ReadMirrorThrows ==
    /\ rd.pc \in {"put", "setmeta", "prune"}
    /\ state' = [state EXCEPT !.lastError = "storage", !.status = "error"]
    /\ rd' = IF rd.op = "range" THEN RangeReturned(rd)
             ELSE [rd EXCEPT !.pc = "cached", !.k = 1]
    /\ UNCHANGED <<online, now, dbVars, server, nextServerId, nextTemp, writes, wr,
                   task, okCalls>>
    /\ notifyListeners
    /\ UNCHANGED browser

(* getCachedEventsInRange: the query of one calendar resolves *)
ReadCached ==
    /\ rd.pc = "cached"
    /\ LET got == getCachedEventsInRange(events, {rd.calendarIds[rd.k]},
                                         rd.rangeStart, rd.rangeEnd)
           sofar == IF rd.k = 1 THEN {} ELSE rd.fetched
       IN rd' = IF rd.k < Len(rd.calendarIds)
                THEN [rd EXCEPT !.k = @ + 1, !.fetched = sofar \cup got]
                ELSE [rd EXCEPT !.pc = "rmeta", !.fetched = sofar \cup got]
    /\ UNCHANGED <<online, now, dbVars, state, server, nextServerId, nextTemp,
                   writes, wr, task, okCalls>>
    /\ UNCHANGED unnotified
    /\ UNCHANGED browser

(* getAllSyncMeta resolves; return { events: cached, fromCache: true, ... } *)
ReadMeta ==
    /\ rd.pc = "rmeta"
    /\ state' = [state EXCEPT !.cacheTimestamp = LatestSync(syncMeta, rd.calendarIds)]
    /\ rd' = ReadReturned(rd, rd.fetched, "true", LatestSync(syncMeta, rd.calendarIds))
    /\ UNCHANGED <<online, now, dbVars, server, nextServerId, nextTemp, writes, wr,
                   task, okCalls>>
    /\ notifyListeners
    /\ UNCHANGED browser

(* getCachedEventsInRange or getAllSyncMeta throws: nothing catches it *)
ReadStoreThrows ==
    /\ rd.pc \in {"cached", "rmeta"}
    /\ rd' = ReadRejected(rd)
    /\ UNCHANGED <<online, now, dbVars, state, server, nextServerId, nextTemp,
                   writes, wr, task, okCalls>>
    /\ UNCHANGED unnotified
    /\ UNCHANGED browser

(* the call of getCalendarsWithCache up to its first await *)
getCalendarsWithCache ==
    /\ rd.pc = "done"
    /\ rd' = [IdleRead EXCEPT !.pc = IF online THEN "clist" ELSE "ccache",
                              !.op = "calendars"]
    /\ UNCHANGED <<online, now, dbVars, state, server, nextServerId, nextTemp,
                   writes, wr, task, okCalls>>
    /\ UNCHANGED unnotified
    /\ UNCHANGED browser

(* getCalendarList() resolves *)
CalListReturns ==
    /\ rd.pc = "clist"
    /\ online
    /\ rd' = [rd EXCEPT !.pc = "cset", !.calendars = RemoteCalendars]
    /\ UNCHANGED <<online, now, dbVars, state, server, nextServerId, nextTemp,
                   writes, wr, task, okCalls>>
    /\ UNCHANGED unnotified
    /\ UNCHANGED browser

(* getCalendarList() or setCachedCalendarList() throws: catch { ... } reads *)
(* the cache; the sync state is not touched                                 *)
CalOnlineThrows ==
    /\ rd.pc \in {"clist", "cset"}
    /\ rd' = [rd EXCEPT !.pc = "ccache", !.calendars = <<>>]
    /\ UNCHANGED <<online, now, dbVars, state, server, nextServerId, nextTemp,
                   writes, wr, task, okCalls>>
    /\ UNCHANGED unnotified
    /\ UNCHANGED browser

(* setCachedCalendarList lands; return { calendars, fromCache: false, ... } *)
CalSetLands ==
    /\ rd.pc = "cset"
    /\ calendarList' = rd.calendars
    /\ rd' = CalendarsReturned(rd, rd.calendars, "false")
    /\ UNCHANGED <<online, now, events, syncMeta, pendingMutations, nextMutationId,
                   state, server, nextServerId, nextTemp, writes, wr, task, okCalls>>
    /\ UNCHANGED unnotified
    /\ UNCHANGED browser

(* getCachedCalendarList() resolves: cached ?? [] *)
CalCachedReads ==
    /\ rd.pc = "ccache"
    /\ rd' = [rd EXCEPT !.pc = "ccachedat",
                        !.calendars = IF calendarList = NoList THEN <<>>
                                      ELSE calendarList]
    /\ UNCHANGED <<online, now, dbVars, state, server, nextServerId, nextTemp,
                   writes, wr, task, okCalls>>
    /\ UNCHANGED unnotified
    /\ UNCHANGED browser

(* getCalendarListCachedAt() resolves; return { calendars, fromCache: true } *)
CalCachedAtReads ==
    /\ rd.pc = "ccachedat"
    /\ rd' = CalendarsReturned(rd, rd.calendars, "true")
    /\ UNCHANGED <<online, now, dbVars, state, server, nextServerId, nextTemp,
                   writes, wr, task, okCalls>>
    /\ UNCHANGED unnotified
    /\ UNCHANGED browser

(* getCachedCalendarList or getCalendarListCachedAt throws *)
CalStoreThrows ==
    /\ rd.pc \in {"ccache", "ccachedat"}
    /\ rd' = ReadRejected(rd)
    /\ UNCHANGED <<online, now, dbVars, state, server, nextServerId, nextTemp,
                   writes, wr, task, okCalls>>
    /\ UNCHANGED unnotified
    /\ UNCHANGED browser

----------------------------------------------------------------------------
(* ISO 8601 strings.  The sessions above take every timestamp in the one   *)
(* format of Date.prototype.toISOString, where the order of the strings is *)
(* the order of the instants, and write the instant for the string.  The   *)
(* events of the remote service carry dateTime strings with the offset of  *)
(* the calendar's time zone or with a plain 'Z'.  A string is coded by an   *)
(* integer so that the order of the codes is the order in which the        *)
(* strings compare: first the local date and time, then the first          *)
(* character that follows the seconds: '-' < '.' < 'Z'.                    *)
Suffixes == <<"-01:00", ".000Z", "Z">>

IsoString(local, k) == local * Len(Suffixes) + (k - 1)

LocalOf(s) == s \div Len(Suffixes)

SuffixOf(s) == Suffixes[(s % Len(Suffixes)) + 1]

(* new Date(t).toISOString() *)
toISOString(t) == IsoString(t, 2)

(* new Date(s).getTime(): local time 'hh:00-01:00' is the instant hh + 1 *)
DateParse(s) == IF SuffixOf(s) = "-01:00" THEN LocalOf(s) + 1 ELSE LocalOf(s)

(* calendarDb.ts, pruneEventsOutsideWindow: the transaction, given the two *)
(* bounds as strings                                                       *)
deleteBelowOrAbove(tbl, start, end) ==
    {r \in tbl : ~(r.startIso < start \/ r.startIso > end)}

IsoLocals == 0..MaxLocal

IsoTimes == {IsoString(l, k) : l \in IsoLocals, k \in 1..Len(Suffixes)}

(* an event as mapEventItem yields it, that lasts d hours *)
IsoEvent(id, calendarId, s, d) ==
    [id |-> id, summary |-> "a", start |-> TimeObj(s),
     end |-> TimeObj(IsoString(LocalOf(s) + d, (s % Len(Suffixes)) + 1)),
     calendarId |-> calendarId]

(* the tables of at most two rows *)
IsoRows(id, cals) ==
    {{}} \cup {{CachedRow(c, IsoEvent(id, c, s, d))} :
                   c \in cals, s \in IsoTimes, d \in {0, 1}}

IsoTables == {a \cup b : a \in IsoRows(1, {"c1"}), b \in IsoRows(2, KnownCals)}

(* getCachedEventsInRange(calendarIds, rangeStart, rangeEnd) with a range  *)
(* made by toISOString, as the views make it                               *)
rangeQuery ==
    /\ \E ids \in ReadCalendarLists, a \in IsoLocals, b \in IsoLocals :
          /\ a <= b
          /\ rd' = [IdleRead EXCEPT
                      !.op = "query", !.calendarIds = ids,
                      !.rangeStart = toISOString(a), !.rangeEnd = toISOString(b),
                      !.outcome = "resolved",
                      !.events = getCachedEventsInRange(
                                     events, {ids[j] : j \in 1..Len(ids)},
                                     toISOString(a), toISOString(b))]
    /\ UNCHANGED <<online, now, dbVars, state, server, nextServerId, nextTemp, writes,
                   wr, task, okCalls, unnotified, browser>>

(* pruneEventsOutsideWindow() *)
pruneCall ==
    /\ rd.op # "prune"
    /\ events' = deleteBelowOrAbove(events, toISOString(now - HalfWindow),
                                    toISOString(now + HalfWindow))
    /\ rd' = [IdleRead EXCEPT !.op = "prune", !.pruneNow = now,
                              !.outcome = "resolved"]
    /\ UNCHANGED <<online, now, syncMeta, pendingMutations, nextMutationId,
                   calendarList, state, server, nextServerId, nextTemp, writes, wr,
                   task, okCalls, unnotified, browser>>

----------------------------------------------------------------------------
(* syncService.ts: startSyncService, its teardown, backgroundSync.         *)
(* browser.listeners holds the starts whose onOnline and onOffline are     *)
(* registered on the window, browser.timers the ids of the intervals that  *)
(* are set; browser.torn holds the starts whose teardown has been called.  *)

(* no startSyncService call has been made *)
NotStarted ==
    [starts |-> 0, torn |-> {}, listeners |-> {}, timers |-> {}, nextTimer |-> 1]

(* the n idle slots of lowest number *)
FirstIdle(n) ==
    {t \in IdleSlots(Tasks) : Cardinality({u \in IdleSlots(Tasks) : u < t}) < n}

(* backgroundSync() is called: offline it sets status 'offline', notifies  *)
(* and returns; online it goes to its first await, getCachedCalendarList() *)
backgroundSync(st) ==
    IF online
    THEN /\ IdleSlots(Tasks) # {}
         /\ task' = [t \in Tasks |-> IF t \in FirstIdle(1)
                                      THEN [IdleTask EXCEPT !.pc = "bglist"]
                                      ELSE task[t]]
         /\ state' = st
         /\ UNCHANGED unnotified
    ELSE /\ state' = [st EXCEPT !.status = "offline"]
         /\ UNCHANGED task
         /\ notifyListeners

(* startSyncService(): both listeners are added; online the interval is    *)
(* set, its id stored in state.syncIntervalId, and backgroundSync() is     *)
(* called; offline status becomes 'offline'                                *)
startSyncService ==
    /\ browser.starts < MaxStarts
    /\ browser' = [browser EXCEPT
                      !.starts = @ + 1,
                      !.listeners = @ \cup {browser.starts + 1},
                      !.timers = IF online THEN @ \cup {browser.nextTimer} ELSE @,
                      !.nextTimer = IF online THEN @ + 1 ELSE @]
    /\ IF online
       THEN backgroundSync([state EXCEPT !.syncIntervalId = browser.nextTimer])
       ELSE /\ state' = [state EXCEPT !.status = "offline"]
            /\ UNCHANGED task
            /\ notifyListeners
    /\ UNCHANGED <<online, now, dbVars, server, nextServerId, nextTemp, writes, wr,
                   okCalls, rd>>

(* the function startSyncService returned to start s is called *)
teardown(s) ==
    /\ s \in 1..browser.starts
    /\ s \notin browser.torn
    /\ browser' = [browser EXCEPT
                      !.torn = @ \cup {s},
                      !.listeners = @ \ {s},
                      !.timers = IF state.syncIntervalId # NoId
                                 THEN @ \ {state.syncIntervalId} ELSE @]
    /\ state' = [state EXCEPT !.syncIntervalId = NoId]
    /\ UNCHANGED <<online, now, dbVars, server, nextServerId, nextTemp, writes, wr,
                   task, okCalls, rd, unnotified>>

(* an interval that is set fires: backgroundSync() *)
intervalFires ==
    /\ browser.timers # {}
    /\ backgroundSync(state)
    /\ UNCHANGED <<online, now, dbVars, server, nextServerId, nextTemp, writes, wr,
                   okCalls, rd, browser>>

(* backgroundSync: getCachedCalendarList() resolves; without calendars it  *)
(* returns, else runIncrementalSync(calendarIds) goes to its first await   *)
BackgroundReadsList(t) ==
    /\ task[t].pc = "bglist"
    /\ LET ids == IF calendarList = NoList THEN <<>> ELSE calendarList
           tr == [task[t] EXCEPT !.calendarIds = ids]
           nx == IF Len(ids) > 0 THEN BeginIncremental(tr, state, 3)
                 ELSE Finish(tr, state)
       IN /\ task' = [task EXCEPT ![t] = nx.t]
          /\ state' = nx.st
    /\ UNCHANGED <<online, now, dbVars, server, nextServerId, nextTemp, writes, wr,
                   okCalls, rd, browser>>
    /\ IF calendarList # NoList /\ online THEN notifyListeners ELSE UNCHANGED unnotified

(* the window's 'online' event: every registered onOnline sets status      *)
(* 'syncing', notifies and calls syncNow(), which goes to its first await  *)
onlineEvent ==
    /\ ~online
    /\ online' = TRUE
    /\ IF browser.listeners = {}
       THEN UNCHANGED <<state, task, unnotified>>
       ELSE /\ Cardinality(IdleSlots(Tasks)) >= Cardinality(browser.listeners)
            /\ state' = [state EXCEPT !.status = "syncing"]
            /\ task' = [t \in Tasks |->
                           IF t \in FirstIdle(Cardinality(browser.listeners))
                           THEN [IdleTask EXCEPT !.pc = "list"]
                           ELSE task[t]]
            /\ notifyListeners
    /\ UNCHANGED <<now, dbVars, server, nextServerId, nextTemp, writes, wr, okCalls,
                   rd, browser>>

(* the window's 'offline' event: every registered onOffline sets status    *)
(* 'offline' and notifies                                                  *)
offlineEvent ==
    /\ online
    /\ online' = FALSE
    /\ IF browser.listeners = {}
       THEN UNCHANGED <<state, unnotified>>
       ELSE /\ state' = [state EXCEPT !.status = "offline"]
            /\ notifyListeners
    /\ UNCHANGED <<now, dbVars, server, nextServerId, nextTemp, writes, wr, task,
                   okCalls, rd, browser>>

(* the stores, the remote service and the calls when the page is loaded *)
InitData(lists, tbl) ==
    /\ now = 0
    /\ server = InitialServer
    /\ events = tbl
    /\ syncMeta = [c \in KnownCals |-> NoTime]
    /\ pendingMutations = {}
    /\ nextMutationId = 1
    /\ calendarList \in lists
    /\ nextServerId = Cardinality(InitialServer) + 1
    /\ nextTemp = 0
    /\ writes = 0
    /\ wr = IdleWrite
    /\ task = [t \in Tasks |-> IdleTask]
    /\ okCalls = {}
    /\ rd = IdleRead
    /\ unnotified = {}

(* the same, before any startSyncService call *)
InitStoresOf(lists, tbl) ==
    /\ InitData(lists, tbl)
    /\ browser = NotStarted

(* the rows of what the server held when the cache was last filled *)
MirrorOf(srv) == {CachedRow(s.calendarId, mapEventItem(s, s.calendarId)) : s \in srv}

(* the cache holds what the server held when it was last filled *)
InitStoresWith(lists) ==
    InitStoresOf(lists, MirrorOf(InitialServer))

InitStores == InitStoresWith({NoList, <<"c1">>})

InitialState(status) ==
    [status |-> status, lastSyncAt |-> NoTime, lastError |-> NoError,
     cacheTimestamp |-> NoTime, syncIntervalId |-> NoId]

Init ==
    /\ online = TRUE
    /\ state = InitialState("idle")
    /\ InitStores

WriteCalls ==
    \/ createEventWithSync
    \/ updateEventWithSync
    \/ deleteEventWithSync

WriteSteps ==
    \/ WriteCallReturns
    \/ WriteCallThrows
    \/ WriteApplies
    \/ WriteRemoves
    \/ WriteEnqueues
    \/ WriteOptimistic
    \/ WriteOptimisticRemove

IncrementalActions(t) ==
    \/ IncReadsMeta(t)
    \/ IncFetchReturns(t)
    \/ IncFetchThrows(t)
    \/ IncPuts(t)
    \/ IncSetsMeta(t)
    \/ IncPrunes(t)

FlushActions(t) ==
    \/ SyncNowReadsList(t)
    \/ FlushReads(t)
    \/ FlushRemovesTemp(t)
    \/ FlushCallReturns(t)
    \/ FlushCallThrows(t)
    \/ FlushApplies(t)
    \/ FlushRemovesCached(t)
    \/ FlushDequeues(t)

(* The whole service, one syncNow run at a time. *)
Next ==
    \/ (writes < FullWrites /\ WriteCalls)
    \/ WriteSteps
    \/ GoOnline({1})
    \/ GoOffline
    \/ Tick
    \/ \E t \in Tasks : IncrementalActions(t) \/ FlushActions(t)

Spec == Init /\ [][Next]_vars

(* No calendar list has been cached yet: syncNow only flushes. *)
InitFlush == Init /\ calendarList = NoList

NextFlush ==
    \/ (writes < MaxWrites /\ WriteCalls)
    \/ WriteSteps
    \/ GoOnline({1})
    \/ GoOffline
    \/ Tick
    \/ \E t \in Tasks : FlushActions(t)

SpecFlush == InitFlush /\ [][NextFlush]_vars

(* The same, where an 'online' event may start a second syncNow while one  *)
(* is in flight.  The UI makes its calls while no syncNow is running, and  *)
(* connectivity changes between its calls: only syncNow runs overlap.      *)
NextOverlap ==
    \/ (writes < MaxWrites /\ IdleSlots(Tasks) = Tasks /\ WriteCalls)
    \/ WriteSteps
    \/ (wr.pc = "done" /\ GoOnline(Tasks))
    \/ GoOffline
    \/ Tick
    \/ \E t \in Tasks : FlushActions(t)

SpecOverlap == InitFlush /\ [][NextOverlap]_vars

(* Reconnection: the service starts offline (startSyncService sets the      *)
(* status to offline), the user creates events, the browser comes online    *)
(* once and every remote call of the syncNow it starts succeeds.  When that *)
(* run is over the UI reads ranges of events, and connectivity may be lost. *)
InitReconnect ==
    /\ online = FALSE
    /\ state = InitialState("offline")
    /\ InitStores

(* the syncNow run that the 'online' event started is over *)
Settled == task[1].pc = "idle" /\ task[1].seen # <<>>

TaskReconnect ==
    \/ SyncNowReadsList(1)
    \/ IncReadsMeta(1)
    \/ IncFetchReturns(1)
    \/ IncPuts(1)
    \/ IncSetsMeta(1)
    \/ IncPrunes(1)
    \/ FlushReads(1)
    \/ FlushRemovesTemp(1)
    \/ FlushCallReturns(1)
    \/ FlushApplies(1)
    \/ FlushDequeues(1)

ReadReconnect ==
    \/ ReadFetchReturns
    \/ (~online /\ ReadFetchThrows)
    \/ ReadPuts
    \/ ReadSetsMeta
    \/ ReadPrunes
    \/ ReadCached
    \/ ReadMeta

NextReconnect ==
    \/ (writes < FullWrites /\ ~online /\ task[1].seen = <<>> /\ createEventWithSync)
    \/ WriteEnqueues
    \/ WriteOptimistic
    \/ (writes > 0 /\ wr.pc = "done" /\ task[1].seen = <<>> /\ GoOnline({1}))
    \/ (Settled /\ GoOffline)
    \/ Tick
    \/ TaskReconnect
    \/ (Settled /\ getEventsWithCache)
    \/ ReadReconnect

(* the event loop runs every continuation that is ready, and in this       *)
(* scenario every remote call is answered                                   *)
SpecReconnect ==
    InitReconnect /\ [][NextReconnect]_vars
        /\ WF_vars(TaskReconnect) /\ WF_vars(ReadReconnect)

(* The read path: the service has started online or offline, the UI reads  *)
(* calendars and events and makes a write, connectivity may be lost, and   *)
(* the requests and the local store may fail.                              *)
InitRead ==
    /\ online \in BOOLEAN
    /\ state = InitialState(IF online THEN "idle" ELSE "offline")
    /\ InitStores

ReadCalls ==
    \/ getEventsWithCache
    \/ getCalendarsWithCache

ReadSteps ==
    \/ ReadFetchReturns
    \/ ReadFetchThrows
    \/ ReadPuts
    \/ ReadSetsMeta
    \/ ReadPrunes
    \/ ReadMirrorThrows
    \/ ReadCached
    \/ ReadMeta
    \/ ReadStoreThrows
    \/ CalListReturns
    \/ CalOnlineThrows
    \/ CalSetLands
    \/ CalCachedReads
    \/ CalCachedAtReads
    \/ CalStoreThrows

NextRead ==
    \/ (writes < FullWrites /\ WriteCalls)
    \/ WriteSteps
    \/ ReadCalls
    \/ ReadSteps
    \/ GoOffline
    \/ Tick

SpecRead == InitRead /\ [][NextRead]_vars

(* reads and writes that are called one after the other: no call starts    *)
(* while another one is pending                                            *)
NextSerial ==
    \/ (rd.pc = "done" /\ writes < FullWrites /\ WriteCalls)
    \/ WriteSteps
    \/ (wr.pc = "done" /\ ReadCalls)
    \/ ReadSteps
    \/ GoOffline
    \/ Tick

SpecSerial == InitRead /\ [][NextSerial]_vars

(* The first launch: the database has just been created and is empty.      *)
InitFresh ==
    /\ online \in BOOLEAN
    /\ state = InitialState(IF online THEN "idle" ELSE "offline")
    /\ InitStoresOf({NoList}, {})

NextFresh ==
    \/ ReadCalls
    \/ syncCalendarRange
    \/ ReadSteps
    \/ GoOffline
    \/ Tick

SpecFresh == InitFresh /\ [][NextFresh]_vars

(* the service is started and torn down by the application while the      *)
(* connectivity changes; nothing is written                                *)
InitLifecycle ==
    /\ online \in BOOLEAN
    /\ state = InitialState("idle")
    /\ InitStores

NextLifecycle ==
    \/ startSyncService
    \/ \E s \in 1..MaxStarts : teardown(s)
    \/ intervalFires
    \/ onlineEvent
    \/ offlineEvent
    \/ \E t \in Tasks :
          \/ BackgroundReadsList(t)
          \/ SyncNowReadsList(t)
          \/ FlushReads(t)
          \/ IncrementalActions(t)

SpecLifecycle == InitLifecycle /\ [][NextLifecycle]_vars

(* writes made while the local store can fail *)
NextStoreFaults ==
    \/ (writes < MaxWrites /\ WriteCalls)
    \/ WriteSteps
    \/ WriteStoreThrows
    \/ WriteMirrorThrows
    \/ GoOffline
    \/ Tick

SpecStoreFaults == InitRead /\ [][NextStoreFaults]_vars

(* Retry: the service was started online (the interval is set) and the     *)
(* browser has gone offline.  The user creates an event, the browser comes *)
(* online once and stays online, the interval keeps firing, and at most    *)
(* one remote call of the flush fails.                                     *)
InitRetry ==
    /\ online = FALSE
    /\ state = [InitialState("offline") EXCEPT !.syncIntervalId = 1]
    /\ InitData({NoList, <<"c1">>}, MirrorOf(InitialServer))
    /\ browser = [starts |-> 1, torn |-> {}, listeners |-> {1}, timers |-> {1},
                  nextTimer |-> 2]

(* the steps of the run in slot t that the event loop takes *)
TaskRetry(t) ==
    \/ BackgroundReadsList(t)
    \/ SyncNowReadsList(t)
    \/ IncReadsMeta(t)
    \/ IncFetchReturns(t)
    \/ IncPuts(t)
    \/ IncSetsMeta(t)
    \/ IncPrunes(t)
    \/ FlushReads(t)
    \/ FlushRemovesTemp(t)
    \/ FlushCallReturns(t)
    \/ ((\A u \in Tasks : task[u].failed = {}) /\ FlushCallThrows(t))
    \/ FlushApplies(t)
    \/ FlushDequeues(t)

WriteRetry ==
    \/ WriteEnqueues
    \/ WriteOptimistic

NextRetry ==
    \/ (writes < FullWrites /\ ~online /\ createEventWithSync)
    \/ WriteRetry
    \/ (writes > 0 /\ wr.pc = "done" /\ onlineEvent)
    \/ intervalFires
    \/ Tick
    \/ \E t \in Tasks : TaskRetry(t)

(* the event loop runs every continuation that is ready, every remote call *)
(* is answered, and the interval fires again and again while it is set     *)
SpecRetry ==
    /\ InitRetry
    /\ [][NextRetry]_vars
    /\ \A t \in Tasks : WF_vars(TaskRetry(t))
    /\ WF_vars(WriteRetry)
    /\ WF_vars(intervalFires)

(* An event is created offline and then updated or deleted offline under  *)
(* its temporary id; the browser comes online once and every remote call   *)
(* reaches the server, which refuses only what it cannot do.               *)
WriteTempTarget ==
    \/ WriteEnqueues
    \/ WriteOptimistic
    \/ WriteOptimisticRemove

TaskTempTarget ==
    \/ SyncNowReadsList(1)
    \/ IncReadsMeta(1)
    \/ IncFetchReturns(1)
    \/ IncPuts(1)
    \/ IncSetsMeta(1)
    \/ IncPrunes(1)
    \/ FlushReads(1)
    \/ FlushRemovesTemp(1)
    \/ FlushCallReturns(1)
    \/ (task[1].pc = "call"
          /\ ~CanSucceed(Mut(1).type, Mut(1).calendarId, Mut(1).eventId)
          /\ FlushCallThrows(1))
    \/ FlushApplies(1)
    \/ FlushDequeues(1)

NextTempTarget ==
    \/ (writes = 0 /\ ~online /\ createEventWithSync)
    \/ (writes = 1 /\ ~online /\ updateEventWithSyncOnTemp)
    \/ (writes = 1 /\ ~online /\ deleteEventWithSyncOnTemp)
    \/ WriteTempTarget
    \/ (writes = MaxWrites /\ wr.pc = "done" /\ task[1].seen = <<>> /\ GoOnline({1}))
    \/ Tick
    \/ TaskTempTarget

SpecTempTarget == InitReconnect /\ [][NextTempTarget]_vars

(* the whole service while the local store can fail under a running sync *)
NextSyncFaults ==
    \/ Next
    \/ \E t \in Tasks : SyncListThrows(t) \/ IncMetaThrows(t) \/ IncStoreThrows(t)

SpecSyncFaults == Init /\ [][NextSyncFaults]_vars

(* the two functions of calendarDb.ts that compare timestamp strings,      *)
(* applied to every table of IsoTables                                     *)
InitIso ==
    /\ online = TRUE
    /\ state = InitialState("idle")
    /\ now \in HalfWindow..MaxLocal
    /\ events \in IsoTables
    /\ server = {}
    /\ syncMeta = [c \in KnownCals |-> NoTime]
    /\ pendingMutations = {}
    /\ nextMutationId = 1
    /\ calendarList = NoList
    /\ nextServerId = 1
    /\ nextTemp = 0
    /\ writes = 0
    /\ wr = IdleWrite
    /\ task = [t \in Tasks |-> IdleTask]
    /\ okCalls = {}
    /\ rd = IdleRead
    /\ unnotified = {}
    /\ browser = NotStarted

NextIso ==
    \/ rangeQuery
    \/ pruneCall

SpecIso == InitIso /\ [][NextIso]_vars

(* a session that refreshes date ranges with syncCalendarRange *)
RangeSteps ==
    \/ ReadFetchReturns
    \/ ReadFetchThrows
    \/ ReadPuts
    \/ ReadSetsMeta
    \/ ReadPrunes
    \/ ReadMirrorThrows

NextRange ==
    \/ (writes < FullWrites /\ WriteCalls)
    \/ WriteSteps
    \/ syncCalendarRange
    \/ RangeSteps
    \/ GoOffline
    \/ Tick

SpecRange == InitRead /\ [][NextRange]_vars

(* Every operation that writes the sync state: the writes, the reads, the *)
(* range sync and the reconnect-triggered sync, with failing remote calls  *)
(* and a failing local store in the reads; a read or range sync is called  *)
(* while no write and no sync is pending, a write or a sync while no read  *)
(* is, and the clock stands still.                                         *)
NextStatus ==
    \/ (rd.pc = "done" /\ writes < FullWrites /\ WriteCalls)
    \/ WriteSteps
    \/ (rd.pc = "done" /\ GoOnline({1}))
    \/ GoOffline
    \/ IncrementalActions(1)
    \/ FlushActions(1)
    \/ (wr.pc = "done" /\ task[1].pc = "idle" /\ getEventsWithCache)
    \/ (wr.pc = "done" /\ task[1].pc = "idle" /\ syncCalendarRange)
    \/ RangeSteps
    \/ ReadCached
    \/ ReadMeta
    \/ ReadStoreThrows

SpecStatus == Init /\ [][NextStatus]_vars

(* The operations that store watermarks, interleaved freely: the UI reads  *)
(* events while a reconnect-triggered sync of the cached calendar list     *)
(* runs, and the clock advances.  No write is made.                        *)
InitWatermark == Init /\ calendarList # NoList

NextWatermark ==
    \/ GoOnline({1})
    \/ GoOffline
    \/ Tick
    \/ SyncNowReadsList(1)
    \/ FlushReads(1)
    \/ IncrementalActions(1)
    \/ getEventsWithCache
    \/ ReadFetchReturns
    \/ ReadFetchThrows
    \/ ReadPuts
    \/ ReadSetsMeta
    \/ ReadPrunes
    \/ ReadCached
    \/ ReadMeta

SpecWatermark == InitWatermark /\ [][NextWatermark]_vars

(* Two calendars are in the cached calendar list, in either order: the     *)
(* incremental sync fetches one after the other, and each fetch may fail.  *)
InitPartial ==
    /\ online = TRUE
    /\ state = InitialState("idle")
    /\ InitStoresWith({<<"c1", "c2">>, <<"c2", "c1">>})

SpecPartial == InitPartial /\ [][Next]_vars

----------------------------------------------------------------------------
(* Properties *)

QueuedIds == {m.id : m \in pendingMutations}

Range(f) == {f[x] : x \in DOMAIN f}

(* the positions of the snapshot that the loop of run t has finished with *)
Over(t) ==
    IF task[t].pc = "idle" THEN DOMAIN task[t].seen
    ELSE {p \in DOMAIN task[t].seen : p < task[t].i}

(* C1: a queued delete whose remote call answered 'not found' is out of    *)
(* the queue once the flush pass has dealt with it.                        *)
C1_NotFoundDeleteIsDequeued ==
    \A t \in Tasks : \A p \in Over(t) :
        \A m \in pendingMutations :
            (m.id = task[t].seen[p] /\ m.type = "delete")
                => m.id \notin task[t].notFound

(* the temporary ids of the events created offline so far *)
TempIds == {TempId(n) : n \in 1..nextTemp}

Flushed(x) ==
    /\ \E s \in server : s.origin = x
    /\ ~\E m \in pendingMutations : m.tempEventId = x

ConfirmedRows(x) ==
    {r \in events : \E s \in server : s.id = r.id /\ s.origin = x}

(* C2: once the create mutation of an event created offline is flushed,    *)
(* the cache holds no row under the temporary id and exactly one confirmed *)
(* row of that event, also when two syncNow runs overlap.                  *)
C2_OneRowAfterFlush ==
    \A x \in TempIds :
        Flushed(x) => /\ ~\E r \in events : r.id = x
                      /\ Cardinality(ConfirmedRows(x)) = 1

(* C3: a mutation leaves the queue only after its remote call succeeded.   *)
C3_DequeuedOnlyAfterSuccess ==
    \A t \in Tasks : task[t].dequeued \subseteq okCalls

(* C4: a failed remote call does not end the pass: every position the loop *)
(* has finished with was attempted (its call was sent, or it was dequeued), *)
(* a mutation whose call succeeded is out of the queue, and a mutation     *)
(* whose calls all failed is in the queue as it was.                       *)
C4_NoHeadOfLineBlocking ==
    \A t \in Tasks :
        LET tr == task[t] IN
        /\ \A p \in Over(t) :
              /\ tr.seen[p] \in Range(tr.called) \cup tr.dequeued
              /\ (tr.seen[p] \in Range(tr.called) \ tr.failed)
                    => tr.seen[p] \notin QueuedIds
        /\ \A id \in tr.failed \ okCalls : id \in QueuedIds
        /\ \A p \in DOMAIN tr.pending :
              tr.pending[p].id \in tr.failed \ okCalls
                  => tr.pending[p] \in pendingMutations
        /\ tr.pc # "idle" /\ tr.i > Len(tr.pending) => tr.i = Len(tr.seen) + 1

C4_LaterMutationFlushed ==
    \E t \in Tasks : \E p, q \in DOMAIN task[t].seen :
        /\ p < q
        /\ task[t].seen[p] \in task[t].failed
        /\ task[t].seen[p] \in QueuedIds
        /\ task[t].seen[q] \in task[t].dequeued \cap okCalls

Increasing(f) == \A p, q \in DOMAIN f : p < q => f[p] < f[q]

(* C5: listMutations lists the queue in enqueue order (the ids are         *)
(* assigned in that order), and a pass sends its remote calls in the order *)
(* of the list it read.                                                    *)
C5_FlushInEnqueueOrder ==
    /\ Increasing([p \in 1..Cardinality(pendingMutations) |->
                      getPendingMutations(pendingMutations)[p].id])
    /\ \A t \in Tasks :
          /\ Increasing(task[t].seen)
          /\ Increasing(task[t].called)
          /\ Range(task[t].called) \subseteq Range(task[t].seen)

C5_TwoCallsSameInstant ==
    \E t \in Tasks :
        /\ Len(task[t].called) = 2
        /\ Len(task[t].pending) = 2
        /\ task[t].pending[1].createdAt = task[t].pending[2].createdAt

(* C6: createEventWithSync called offline sends no remote call, adds       *)
(* exactly one create mutation with a fresh temporary id and the payload   *)
(* (the pending count grows by exactly one), writes exactly one cache row  *)
(* under that temporary id for the calendar, and returns the optimistic    *)
(* event.                                                                  *)
C6_Step ==
    /\ (wr.pc = "done" /\ wr'.pc # "done" /\ wr'.op = "create" /\ ~online) =>
          /\ wr'.pc = "add" /\ wr'.calls = 0
          /\ IsTempId(wr'.tempId)
          /\ \A r \in events : r.id # wr'.tempId
          /\ \A m \in pendingMutations : m.tempEventId # wr'.tempId
          /\ \A s \in server : s.origin # wr'.tempId /\ s.id # wr'.tempId
          /\ UNCHANGED <<events, pendingMutations, server>>
    /\ (wr.pc = "add" /\ wr.op = "create" /\ wr' # wr) =>
          /\ \E m \in pendingMutations' :
                /\ m \notin pendingMutations
                /\ pendingMutations' = pendingMutations \cup {m}
                /\ m.type = "create" /\ m.calendarId = wr.calendarId
                /\ m.tempEventId = wr.tempId /\ m.payload = wr.payload
          /\ Cardinality(pendingMutations') = Cardinality(pendingMutations) + 1
          /\ Len(getPendingMutations(pendingMutations'))
                = Len(getPendingMutations(pendingMutations)) + 1
          /\ wr'.pc = "optimistic" /\ wr'.calls = 0
          /\ UNCHANGED <<events, server>>
    /\ (wr.pc = "optimistic" /\ wr' # wr) =>
          /\ \E r \in events' :
                /\ r \notin events
                /\ events' = events \cup {r}
                /\ SameKey(r, wr.calendarId, wr.tempId)
                /\ r.event = [id |-> wr.tempId, summary |-> wr.payload.summary,
                              start |-> wr.payload.start, end |-> wr.payload.end,
                              calendarId |-> wr.calendarId]
          /\ wr'.pc = "done" /\ wr'.ret = "event" /\ wr'.retId = wr.tempId
          /\ wr'.calls = 0
          /\ UNCHANGED <<pendingMutations, server>>

C6_OfflineCreate == [][C6_Step]_vars

C6_OptimisticEventReturned ==
    /\ wr.op = "create" /\ wr.pc = "done" /\ ~wr.sawOnline
    /\ wr.ret = "event" /\ IsTempId(wr.retId)
    /\ \E r \in events : r.id = wr.retId
    /\ \E m \in pendingMutations : m.tempEventId = wr.retId
    /\ Cardinality(pendingMutations) = 2

(* the start the user chose for the event created under temporary id x *)
StartOf(x) == RawStart(CHOOSE s \in server : s.origin = x)

(* v is inside the retention window at every instant up to now *)
InWindowSoFar(v) ==
    \A t \in 0..now : v >= t - HalfWindow /\ v <= t + HalfWindow

(* the events of the last read that are the event created under x *)
ReturnedOf(x) ==
    {e \in rd.events : e.id = x \/ \E s \in server : s.id = e.id /\ s.origin = x}

(* the queue is empty and the cache holds the event created under x under  *)
(* its server id, and not under x                                          *)
Reconciled(x) ==
    /\ pendingMutations = {}
    /\ Len(getPendingMutations(pendingMutations)) = 0
    /\ ~\E r \in events : r.id = x
    /\ Cardinality(ConfirmedRows(x)) = 1

(* the last read, if its range contains the start of the event created     *)
(* under x, returned that event exactly once                               *)
ReadOnce(x) ==
    (/\ rd.pc = "done" /\ rd.fromCache # "none"
     /\ rd.rangeStart < StartOf(x) /\ StartOf(x) < rd.rangeEnd)
        => Cardinality(ReturnedOf(x)) = 1

(* C7 as stated: after an offline create and a reconnection whose remote   *)
(* calls all succeed, the queue is empty, the cache holds the event under  *)
(* its server id only, and a following read of a range containing the      *)
(* event returns it exactly once, for every start time.                    *)
C7_ReconciledForEveryStart ==
    Settled => \A x \in TempIds : Reconciled(x) /\ ReadOnce(x)

(* C7, for the start times that stay inside the retention window: the      *)
(* syncNow run of the reconnection ends, and from then on the queue is     *)
(* empty, the cache holds the event under its server id only, and a read   *)
(* of a range containing the event returns it exactly once.                *)
C7_ReconciledInsideWindow ==
    /\ [](online => <>Settled)
    /\ [](Settled => \A x \in TempIds :
            InWindowSoFar(StartOf(x)) => Reconciled(x) /\ ReadOnce(x))

C7_ReadFromCacheAfterReconnect ==
    /\ Settled /\ ~online /\ now = 1
    /\ rd.pc = "done" /\ rd.fromCache = "true"
    /\ \E x \in TempIds :
          /\ InWindowSoFar(StartOf(x))
          /\ Reconciled(x)
          /\ rd.rangeStart < StartOf(x) /\ StartOf(x) < rd.rangeEnd
          /\ Cardinality(ReturnedOf(x)) = 1


(* C8: when the remote call of an online write fails, the queue and the    *)
(* cache are as they were, lastError holds the failure message, the status *)
(* is error, and the caller gets null (false for a delete).                *)
C8_Step ==
    /\ (wr.pc = "done" /\ wr'.pc = "api") => UNCHANGED <<pendingMutations, events>>
    /\ (wr.pc = "api" /\ wr'.pc = "done") =>
          /\ UNCHANGED <<pendingMutations, events>>
          /\ wr'.err \in FailureKinds
          /\ state'.lastError = wr'.err
          /\ state'.status = "error"
          /\ wr'.ret = IF wr.op = "delete" THEN "false" ELSE "null"

C8_OnlineFailureNotQueued == [][C8_Step]_vars

C8_OnlineWriteFailed ==
    /\ wr.pc = "done" /\ wr.sawOnline /\ wr.calls = 1
    /\ wr.op = "delete" /\ wr.ret = "false" /\ wr.err = "auth"
    /\ state.lastError = "auth" /\ state.status = "error"
    /\ pendingMutations = {}

(* C9: a write that saw the browser offline when it was called sends no    *)
(* remote call, whatever connectivity does while it runs.                  *)
C9_OfflineWriteNeverCalls ==
    (wr.op # "none" /\ ~wr.sawOnline) => wr.calls = 0

C9_OnlineAgainDuringOfflineWrite ==
    /\ wr.op = "delete" /\ wr.pc = "optremove"
    /\ ~wr.sawOnline /\ online
    /\ wr.calls = 0

(* C10: updateEventWithSync called offline adds exactly one update         *)
(* mutation with the target id and the patch, and leaves every cached row, *)
(* every watermark and the calendar list as they were.                     *)
C10_Step ==
    /\ (wr.pc = "done" /\ wr'.pc # "done" /\ wr'.op = "update" /\ ~online) =>
          /\ wr'.pc = "add"
          /\ UNCHANGED <<events, syncMeta, calendarList, pendingMutations>>
    /\ (wr.pc = "add" /\ wr.op = "update" /\ wr' # wr) =>
          /\ \E m \in pendingMutations' :
                /\ m \notin pendingMutations
                /\ pendingMutations' = pendingMutations \cup {m}
                /\ m.type = "update" /\ m.calendarId = wr.calendarId
                /\ m.eventId = wr.eventId /\ m.payload = wr.payload
          /\ wr'.pc = "done"
          /\ UNCHANGED <<events, syncMeta, calendarList>>

C11_Step ==
    /\ (wr.pc = "done" /\ wr'.pc # "done" /\ wr'.op = "delete" /\ ~online) =>
          /\ wr'.pc = "add"
          /\ UNCHANGED <<events, pendingMutations>>
    /\ (wr.pc = "add" /\ wr.op = "delete" /\ wr' # wr) =>
          /\ \E m \in pendingMutations' :
                /\ m \notin pendingMutations
                /\ pendingMutations' = pendingMutations \cup {m}
                /\ m.type = "delete" /\ m.calendarId = wr.calendarId
                /\ m.eventId = wr.eventId
          /\ wr'.pc = "optremove"
          /\ UNCHANGED events
    /\ (wr.pc = "optremove" /\ wr' # wr) =>
          /\ ~\E r \in events' : SameKey(r, wr.calendarId, wr.eventId)
          /\ \A r \in events : ~SameKey(r, wr.calendarId, wr.eventId) => r \in events'
          /\ events' \subseteq events
          /\ wr'.pc = "done" /\ wr'.ret = "true"
          /\ UNCHANGED pendingMutations

C11_OfflineDelete == [][C11_Step]_vars

C11_DeletedRowGoneOthersKept ==
    /\ wr.op = "delete" /\ wr.pc = "done" /\ ~wr.sawOnline /\ wr.ret = "true"
    /\ \E m \in pendingMutations : m.type = "delete" /\ m.eventId = 1
    /\ ~\E r \in events : r.id = 1
    /\ \E r \in events : r.id = 2

(* C12: when runIncrementalSync merges what it fetched, an event that the  *)
(* server reported as deleted has no row in the cache: it is removed, and  *)
(* never stored.                                                           *)
C12_Step ==
    \A t \in Tasks :
        (task[t].pc = "put" /\ task'[t].pc = "setmeta") =>
            \A id \in task[t].gone :
                ~\E r \in events' :
                    SameKey(r, task[t].calendarIds[task[t].k], id)

C12_DeletionAppliedAsRemoval == [][C12_Step]_vars

(* C13: getCalendarsWithCache and getEventsWithCache never reject: every   *)
(* call resolves to a result, also when the remote call or a local-store   *)
(* operation fails.                                                        *)
C13_ReadsNeverReject == rd.outcome # "rejected"

(* C14: when getCalendarsWithCache is called online and the remote call    *)
(* fails, the failure is recorded in the sync state (status 'error',       *)
(* lastError set) and the listeners are notified; the call does not throw  *)
(* on account of it and resolves with the cached list and fromCache true.  *)
C14_Step ==
    /\ (rd.op = "calendars" /\ rd.pc = "clist" /\ rd'.pc = "ccache") =>
           /\ state'.status = "error"
           /\ state'.lastError # NoError
           /\ unnotified' = {}
    /\ (rd.op = "calendars" /\ rd.pc = "ccachedat" /\ rd'.outcome = "resolved") =>
           /\ rd'.fromCache = "true"
           /\ rd'.calendars = rd.calendars

C14_FailureSurfacedInSyncState == [][C14_Step]_vars

(* C15: when getEventsWithCache is called offline, or online with a        *)
(* failing remote call, it resolves with exactly the cached events of the  *)
(* calendars asked for that overlap the range asked for, with fromCache    *)
(* true, and with cacheTimestamp the greatest watermark of the calendars   *)
(* asked for, or null when none of them has one; when the remote call      *)
(* failed, status becomes 'error' and lastError is set.                    *)
C15_Asked(r) == {r.calendarIds[j] : j \in 1..Len(r.calendarIds)}

C15_Overlapping(calendarId) ==
    {r.event : r \in {c \in events : /\ c.calendarId = calendarId
                                      /\ ~(c.startIso > rd.rangeEnd)
                                      /\ ~(c.endIso < rd.rangeStart)}}

C15_Step ==
    /\ (rd.op = "events" /\ rd.pc = "fetch" /\ rd'.pc = "cached") =>
           /\ state'.status = "error"
           /\ state'.lastError # NoError
    /\ (rd.op = "events" /\ rd.pc = "cached" /\ rd' # rd
           /\ rd'.pc \in {"cached", "rmeta"}) =>
           rd'.fetched = (IF rd.k = 1 THEN {} ELSE rd.fetched)
                             \cup C15_Overlapping(rd.calendarIds[rd.k])
    /\ (rd.op = "events" /\ rd.pc = "rmeta" /\ rd'.outcome = "resolved") =>
           /\ rd'.events = rd.fetched
           /\ rd'.fromCache = "true"
           /\ IF \A c \in C15_Asked(rd) : syncMeta[c] = NoTime
              THEN rd'.cacheTimestamp = NoTime
              ELSE /\ \E c \in C15_Asked(rd) : rd'.cacheTimestamp = syncMeta[c]
                   /\ \A c \in C15_Asked(rd) : syncMeta[c] <= rd'.cacheTimestamp
    /\ (rd.op = "events" /\ rd'.outcome = "resolved" /\ rd.pc \in {"cached", "rmeta"}) =>
           rd'.fromCache = "true"

C15_CacheBranchResult == [][C15_Step]_vars

(* a call that failed online has resolved from the cache with events, and  *)
(* the two calendars asked for have different watermarks                   *)
C15_ResolvedFromCacheAfterFailure ==
    /\ rd.op = "events"
    /\ rd.outcome = "resolved"
    /\ rd.fromCache = "true"
    /\ rd.events # {}
    /\ state.status = "error"
    /\ Len(rd.calendarIds) = 2
    /\ syncMeta["c1"] # NoTime
    /\ syncMeta["c2"] # NoTime
    /\ syncMeta["c1"] # syncMeta["c2"]
    /\ rd.cacheTimestamp # NoTime

(* C16: when an online getEventsWithCache succeeds for calendars Cs and    *)
(* range r, every fetched event is put into the cache under its calendar   *)
(* and every calendar of Cs gets its watermark; a read of the cache for    *)
(* the same Cs and r made right after the call returns yields every event  *)
(* the call returned.                                                      *)
C16_InRange(tbl) ==
    {r.event : r \in {c \in tbl : /\ c.calendarId \in C15_Asked(rd)
                                   /\ ~(c.startIso > rd.rangeEnd)
                                   /\ ~(c.endIso < rd.rangeStart)}}

C16_Kept(e, t) ==
    /\ eventStartIso(e) >= t - HalfWindow
    /\ eventStartIso(e) <= t + HalfWindow

C16_Mirrored(insideWindowOnly) ==
    /\ (rd.op = "events" /\ rd.pc = "put" /\ rd' # rd /\ rd'.pc \in {"put", "setmeta"}) =>
           \A e \in rd.fetched :
               e.calendarId = rd.calendarIds[rd.k] =>
                   \E r \in events' : /\ r.calendarId = e.calendarId
                                      /\ r.id = e.id
                                      /\ r.event = e
    /\ (rd.op = "events" /\ rd.pc = "setmeta" /\ rd'.pc = "prune") =>
           \A c \in C15_Asked(rd) : syncMeta'[c] = rd.stamp
    /\ (rd.op = "events" /\ rd.pc = "prune" /\ rd'.outcome = "resolved") =>
           /\ rd'.fromCache = "false"
           /\ rd'.events = rd.fetched
           /\ \A e \in rd'.events :
                  (insideWindowOnly => C16_Kept(e, rd.pruneNow)) =>
                      e \in C16_InRange(events')

C16_CacheReturnsEveryFetched == [][C16_Mirrored(FALSE)]_vars

(* C16, for the events that start inside the retention window when the     *)
(* call prunes the cache                                                   *)
C16_CacheReturnsFetchedInsideWindow == [][C16_Mirrored(TRUE)]_vars

(* an online read of two calendars has returned an event created by an     *)
(* earlier write; it starts inside the window and the cache yields it       *)
C16_OnlineReadMirrored ==
    /\ rd.op = "events"
    /\ rd.outcome = "resolved"
    /\ rd.fromCache = "false"
    /\ wr.pc = "done"
    /\ Len(rd.calendarIds) = 2
    /\ \E e \in rd.events :
          /\ e.id > Cardinality(InitialServer)
          /\ InWindowSoFar(eventStartIso(e))
          /\ e \in C16_InRange(events)
    /\ \A c \in C15_Asked(rd) : syncMeta[c] # NoTime

(* C17: every change of state.status is one of idle -> syncing,            *)
(* syncing -> idle, syncing -> error, idle -> offline, error -> offline,   *)
(* offline -> syncing.                                                     *)
C17_Transitions ==
    {<<"idle", "syncing">>, <<"syncing", "idle">>, <<"syncing", "error">>,
     <<"idle", "offline">>, <<"error", "offline">>, <<"offline", "syncing">>}

C17_Step ==
    state'.status # state.status => <<state.status, state'.status>> \in C17_Transitions

C17_OnlyListedTransitions == [][C17_Step]_vars

(* C18: once the service has been started and not torn down, an interval   *)
(* is set in every period in which the system is online, so that           *)
(* backgroundSync is called on every tick, and every change from offline   *)
(* to online starts a sync at once; whether the service was started        *)
(* online or offline.                                                      *)
C18_Running == (1..browser.starts) \ browser.torn

C18_Step ==
    /\ (C18_Running' # {} /\ online') => browser'.timers # {}
    /\ (C18_Running # {} /\ ~online /\ online') =>
           \E t \in Tasks : task[t].pc = "idle" /\ task'[t].pc = "list"

C18_SyncsWhileOnline == [][C18_Step]_vars

(* C19: when the teardown of every start has been called, no interval is   *)
(* set and no online or offline listener is registered, for any number of  *)
(* starts and any order of the teardown calls.                             *)
C19_TeardownLeavesNothing ==
    (browser.starts > 0 /\ browser.torn = 1..browser.starts) =>
        (browser.timers = {} /\ browser.listeners = {})

(* C20: every change of status, lastSyncAt, lastError, cacheTimestamp or   *)
(* of the number of pending mutations is followed by a call of the         *)
(* listeners before the operation that made the change completes.          *)
C20_Snapshot ==
    <<state.status, state.lastSyncAt, state.lastError, state.cacheTimestamp,
      Cardinality(pendingMutations)>>

C20_Calls == {<<"write", 0>>, <<"read", 0>>} \cup {<<"sync", t>> : t \in Tasks}

C20_Pending(c, w, r, tk) ==
    IF c[1] = "write" THEN w.pc # "done"
    ELSE IF c[1] = "read" THEN r.pc # "done"
    ELSE tk[c[2]].pc # "idle"

C20_Step ==
    /\ C20_Snapshot' # C20_Snapshot =>
           \/ unnotified' = {}
           \/ \E c \in C20_Calls : /\ C20_Pending(c, wr, rd, task)
                                    /\ C20_Pending(c, wr', rd', task')
                                    /\ c \in unnotified'
    /\ \A c \in C20_Calls : ~C20_Pending(c, wr', rd', task') => c \notin unnotified'

C20_ChangeNotifiedBeforeReturn == [][C20_Step]_vars

(* C21: for every table of cached events, every list of calendars asked    *)
(* for and every range [a, b], getCachedEventsInRange returns the event E  *)
(* iff E is of a calendar asked for, E starts at or before b and E ends at *)
(* or after a.                                                             *)
C21_Step ==
    (rd'.op = "query" /\ rd' # rd) =>
        rd'.events =
            {r.event : r \in {c \in events :
                /\ c.calendarId \in C15_Asked(rd')
                /\ DateParse(eventStartIso(c.event)) <= DateParse(rd'.rangeEnd)
                /\ DateParse(eventEndIso(c.event)) >= DateParse(rd'.rangeStart)}}

C21_RangeQueryIsOverlap == [][C21_Step]_vars

(* C22: right after pruneEventsOutsideWindow has run at the instant now,   *)
(* no cached event starts before now - R or after now + R, and every       *)
(* cached event that starts inside [now - R, now + R] is still cached.     *)
C22_Inside(r, t) ==
    /\ DateParse(r.startIso) >= t - HalfWindow
    /\ DateParse(r.startIso) <= t + HalfWindow

C22_Step ==
    (rd'.op = "prune" /\ rd.op # "prune") =>
        /\ \A r \in events' : C22_Inside(r, now)
        /\ \A r \in events : C22_Inside(r, now) => r \in events'

C22_PruneKeepsExactlyTheWindow == [][C22_Step]_vars

(* C23: when runIncrementalSync runs twice in a row (the two runs of       *)
(* syncNow with an empty queue), with no server change and no local        *)
(* operation between the two runs, the rows of the cache after the second  *)
(* run are the rows after the first run, and every calendar still has one  *)
(* watermark.                                                              *)
C23_SecondRunEnds(t) ==
    /\ task[t].pc = "prune"
    /\ task[t].stage = 2
    /\ task'[t].pc = "idle"
    /\ task[t].seen = <<>>
    /\ task[t].after1.quiet
    /\ task[t].after1.writes = writes
    /\ task[t].after1.now = now
    /\ wr.pc = "done"

C23_Step ==
    \A t \in Tasks :
        C23_SecondRunEnds(t) =>
            /\ events' = task[t].after1.events
            /\ DOMAIN syncMeta' = KnownCals
            /\ \A j \in 1..Len(task[t].calendarIds) :
                   syncMeta'[task[t].calendarIds[j]] # NoTime

C23_ResyncIsIdempotent == [][C23_Step]_vars


(* C24: when the fetch of the k-th calendar fails in an incremental sync,   *)
(* the loop stops, the status becomes error with lastError the failure      *)
(* message, the calendars before k keep their merged events and their       *)
(* advanced watermark, and the k-th and later calendars keep the watermark  *)
(* they had.                                                                *)
C24_FetchFails(t) == task[t].pc = "fetch" /\ task'[t].pc \in {"read", "idle"}

C24_Step ==
    \A t \in Tasks :
        C24_FetchFails(t) =>
            LET tr == task[t]
                ids == tr.calendarIds
            IN /\ state'.status = "error"
               /\ state'.lastError \in {"network", "auth"}
               /\ events' = events
               /\ writes = 0 => tr.merged \subseteq events'
               /\ \A j \in 1..(tr.k - 1) : syncMeta'[ids[j]] = tr.started
               /\ \A j \in tr.k..Len(ids) : syncMeta'[ids[j]] = tr.meta[ids[j]]

C24_PartialSuccessKept == [][C24_Step]_vars

C24_SecondCalendarFailed ==
    /\ task[1].pc = "read"
    /\ task[1].calendarIds = <<"c1", "c2">>
    /\ task[1].k = 2
    /\ state.status = "error"
    /\ state.lastError = "network"
    /\ writes = 0
    /\ syncMeta["c1"] = 0
    /\ syncMeta["c2"] = NoTime
    /\ \E r \in events : r.calendarId = "c1"

(* C25: syncRange has the partial-success behaviour of the incremental     *)
(* sync: when the fetch of the k-th requested calendar fails, the events    *)
(* fetched for the calendars before k are in the cache, their watermark has *)
(* been set, and the status is error with lastError set.                    *)
C25_FetchFails == rd.op = "range" /\ rd.pc = "fetch" /\ rd'.pc = "done"

C25_Step ==
    C25_FetchFails =>
        /\ state'.status = "error"
        /\ state'.lastError # NoError
        /\ \A j \in 1..(rd.k - 1) :
               LET c == rd.calendarIds[j] IN
                  /\ syncMeta'[c] # NoTime
                  /\ wr.pc = "done" =>
                         {CachedRow(c, e) : e \in {x \in rd.fetched : x.calendarId = c}}
                             \subseteq events'

C25_RangePartialSuccessKept == [][C25_Step]_vars

(* C26: while the remote call of a sync operation (the getEvents of an      *)
(* incremental sync or of syncRange) is outstanding, the status stays       *)
(* syncing: a step that leaves the call outstanding leaves the status.      *)
C26_Outstanding ==
    \/ \E t \in Tasks : task[t].pc = "fetch" /\ task'[t] = task[t]
    \/ rd.op = "range" /\ rd.pc = "fetch" /\ rd'.pc = "fetch"

C26_Step ==
    C26_Outstanding /\ state.status = "syncing" => state'.status = "syncing"

C26_StatusStaysSyncing == [][C26_Step]_vars

(* C27: when a background sync and an online write to the same event have   *)
(* interleaved so that the cache row of the event differs from the server,  *)
(* the next successful incremental sync that runs with nothing beside it    *)
(* makes the cache agree with the server for that event.                    *)
(* the cache tbl has server event s as the server has it *)
C27_Agrees(tbl, s) ==
    IF s.deleted THEN \A r \in tbl : ~SameKey(r, s.calendarId, s.id)
    ELSE \A r \in tbl : SameKey(r, s.calendarId, s.id) =>
                            r = CachedRow(s.calendarId, mapEventItem(s, s.calendarId))

(* the second run of syncNow ends successfully; the queue was empty, the    *)
(* one write, made online, had returned before the first run ended and no   *)
(* other was made                                                           *)
C27_QuietSyncEnds(t) ==
    /\ task[t].pc = "prune"
    /\ task[t].stage = 2
    /\ task'[t].pc = "idle"
    /\ task[t].seen = <<>>
    /\ task[t].after1.quiet
    /\ task[t].after1.writes = writes
    /\ wr.pc = "done"
    /\ wr.sawOnline
    /\ wr.ret \in {"event", "true"}

(* the events the write changed on the server, inside the range run t asks for *)
C27_Written(t) ==
    {s \in server \ InitialServer :
        /\ \E j \in 1..Len(task[t].calendarIds) : task[t].calendarIds[j] = s.calendarId
        /\ RawEnd(s) > task[t].started - HalfWindow
        /\ RawStart(s) < task[t].started + HalfWindow}

C27_Step ==
    \A t \in Tasks :
        C27_QuietSyncEnds(t) =>
            \A s \in C27_Written(t) :
                ~C27_Agrees(task[t].after1.events, s) => C27_Agrees(events', s)

C27_NextSyncHeals == [][C27_Step]_vars

(* C28: a stored watermark w of calendar C means the remote changes of C up *)
(* to w have been fetched: with no operation in flight, every server event  *)
(* of C that starts inside the default sync window and was last modified at *)
(* or before w is in the cache in its server version, unless a pending      *)
(* mutation targets it; whichever operation wrote the watermark.            *)
C28_NothingInFlight ==
    /\ rd.pc = "done"
    /\ wr.pc = "done"
    /\ \A t \in Tasks : task[t].pc = "idle"

C28_Covered(c) ==
    {s \in server : /\ s.calendarId = c
                    /\ ~s.deleted
                    /\ s.updated <= syncMeta[c]
                    /\ RawStart(s) > now - HalfWindow
                    /\ RawStart(s) < now + HalfWindow
                    /\ \A m \in pendingMutations : m.eventId # s.id}

C28_WatermarkCoversWindow ==
    C28_NothingInFlight =>
        \A c \in KnownCals :
            syncMeta[c] # NoTime =>
                \A s \in C28_Covered(c) :
                    CachedRow(c, mapEventItem(s, c)) \in events

(* C29: a local-store failure never turns a successful remote operation    *)
(* into a reported failure: when an online create, update or delete has     *)
(* succeeded remotely, the call returns the successful result (the event,   *)
(* or true), whatever the following cache write does.                       *)
C29_RemoteSucceeded == wr.pc \in {"apply", "remove"}

C29_Step ==
    C29_RemoteSucceeded /\ wr'.pc = "done" =>
        wr'.ret = IF wr.op = "delete" THEN "true" ELSE "event"

C29_RemoteSuccessReported == [][C29_Step]_vars

(* C30: every failure of a background or reconnect-triggered sync (a        *)
(* failing remote call, a failing local-store read or write at any step)    *)
(* is recorded in the sync state: the status is error, not syncing, and      *)
(* lastError is set.                                                        *)
(* a step of run t fails: the calendar list or the watermarks cannot be     *)
(* read, or a fetch, a put or a watermark write of the loop fails            *)
C30_Failed(t) ==
    \/ task[t].pc \in {"list", "bglist", "meta"} /\ task'[t].pc = "idle"
    \/ task[t].pc \in {"fetch", "put", "setmeta"} /\ task'[t].pc \in {"read", "idle"}

C30_Step ==
    \A t \in Tasks :
        C30_Failed(t) => state'.status = "error" /\ state'.lastError # NoError

C30_SyncFailureRecorded == [][C30_Step]_vars

(* C31: a mutation left in the queue by a failed flush pass is attempted    *)
(* again while the system stays online and the remote calls succeed: once   *)
(* the browser is online, no run is in flight and the queue is not empty,   *)
(* the queue is eventually empty, with no further 'online' event.           *)
C31_LeftInQueue ==
    /\ online
    /\ pendingMutations # {}
    /\ \A t \in Tasks : task[t].pc = "idle"

C31_RetriedWhileOnline == C31_LeftInQueue ~> (pendingMutations = {})

(* C32: a queued create mutation causes at most one successful remote       *)
(* create call: the server never holds two events made from one offline     *)
(* create, also when flush passes overlap.                                  *)
C32_CreatedFrom(x) == {s \in server : s.origin = x}

C32_AtMostOneRemoteCreate ==
    \A x \in TempIds : Cardinality(C32_CreatedFrom(x)) <= 1

(* C33: while a create mutation with a temporary id is in the queue, the    *)
(* write that queued it has returned and no flush pass is in progress, the  *)
(* cache holds the optimistic row under that temporary id.                  *)
C33_NoPassInProgress ==
    /\ wr.pc = "done"
    /\ \A t \in Tasks : task[t].pc = "idle"

C33_OptimisticRowKept ==
    C33_NoPassInProgress =>
        \A m \in pendingMutations :
            m.type = "create" /\ Truthy(m.tempEventId) =>
                \E r \in events : SameKey(r, m.calendarId, m.tempEventId)

(* C34: an update or delete made offline against an event created offline   *)
(* (its target id is the temporary id) takes effect once the queue is       *)
(* flushed with every remote call reachable: after the flush the queue is   *)
(* empty, and an event created and then deleted offline is neither on the   *)
(* server nor in the cache.                                                 *)
C34_FlushOver ==
    /\ task[1].pc = "idle"
    /\ Len(task[1].seen) = MaxWrites

C34_LiveFrom(x) == {sv \in server : sv.origin = x /\ ~sv.deleted}

C34_TempTargetTakesEffect ==
    C34_FlushOver =>
        /\ pendingMutations = {}
        /\ wr.op = "delete" =>
               \A x \in TempIds :
                   /\ C34_LiveFrom(x) = {}
                   /\ \A r \in events : r.id # x /\ (\A sv \in server : sv.origin = x => r.id # sv.id)

(* C35: in every reachable state, status = idle implies lastError = null.   *)
C35_IdleHasNoError == state.status = "idle" => state.lastError = NoError

(* a write has failed, and a sync that ended since has made the status idle *)
C35_IdleAfterFailure ==
    /\ state.status = "idle"
    /\ state.lastSyncAt # NoTime
    /\ wr.pc = "done"
    /\ wr.err # NoError
    /\ rd.pc = "done"
    /\ task[1].pc = "idle"

(* C36: in every reachable state, status = error implies that lastError is  *)
(* not null.                                                                *)
C36_ErrorHasMessage == state.status = "error" => state.lastError # NoError

(* C37: once the service is started (its listeners are registered, no      *)
(* teardown has been called) and no operation is in flight, status =        *)
(* offline holds exactly when the browser is offline.                       *)
C37_StartedAndQuiet ==
    /\ browser.listeners # {}
    /\ browser.torn = {}
    /\ wr.pc = "done"
    /\ rd.pc = "done"
    /\ \A t \in Tasks : task[t].pc = "idle"

C37_OfflineStatusIffOffline ==
    C37_StartedAndQuiet => (state.status = "offline" <=> ~online)

(* C38: the watermark of a calendar never moves backwards: every stored     *)
(* value is greater than or equal to the one stored before, under every     *)
(* interleaving of getEvents, syncRange and the incremental sync.           *)
C38_Step == \A c \in KnownCals : syncMeta'[c] >= syncMeta[c]

C38_WatermarkMonotonic == [][C38_Step]_vars

(* C39: after an offline-to-online transition, every call being answered,   *)
(* the status eventually leaves syncing (for idle, error or offline),       *)
(* whatever the cached calendar list holds.                                 *)
C39_LeavesSyncing == (state.status = "syncing") ~> (state.status # "syncing")
============================================================================
